---- MODULE Spec2Model ----
(***************************************************************************)
(* A model of src/shaders/custom.c of libplacebo: the mpv user-shader      *)
(* parser, the size-expression (RPN) evaluator and the hook dispatcher     *)
(* (hook_hook / hook_save / hook_reset) with the lifecycle of the hook     *)
(* object (pl_parse_mpv_user_shader / pl_destroy_mpv_user_shader).         *)
(*                                                                         *)
(* A document is modelled after lexing: a sequence of sections, each a     *)
(* sequence of header directives and a body.  Bit sets of stages are sets. *)
(* Floats are exact rationals [n, d]; a division by zero is the only       *)
(* non-finite result the bounded inputs can produce.                       *)
(***************************************************************************)
EXTENDS Integers, Sequences, FiniteSets, TLC

\* ------------------------------------------------------------------ bounds
\* Entries the pass-texture array may hold before the renderer must reset.
MaxPassTex == 2
\* Bodies emitted before the model stops emitting (caps frame_count).
MaxFrames == 2

\* ------------------------------------------------------- program constants
SHADER_MAX_HOOKS == 16
SHADER_MAX_BINDS == 16
MAX_SZEXP_SIZE == 32

\* struct bstr with start == NULL (a zero-initialised slot).
NullStr == "<NULL>"

\* The bytes of a bstr: a NULL bstr has length 0.
Bytes(s) == IF s = NullStr THEN "" ELSE s

\* bstr_equals: same length and same bytes.
bstr_equals(a, b) == Bytes(a) = Bytes(b)

\* bstr_equals0 against a string literal.
bstr_equals0(a, lit) == Bytes(a) = lit

\* ------------------------------------------------------ stage-name mapping
StageTable ==
    << <<"RGB", "PL_HOOK_RGB_INPUT">>,
       <<"LUMA", "PL_HOOK_LUMA_INPUT">>,
       <<"CHROMA", "PL_HOOK_CHROMA_INPUT">>,
       <<"ALPHA", "PL_HOOK_ALPHA_INPUT">>,
       <<"XYZ", "PL_HOOK_XYZ_INPUT">>,
       <<"CHROMA_SCALED", "PL_HOOK_CHROMA_SCALED">>,
       <<"ALPHA_SCALED", "PL_HOOK_ALPHA_SCALED">>,
       <<"NATIVE", "PL_HOOK_NATIVE">>,
       <<"MAINPRESUB", "PL_HOOK_RGB">>,
       <<"MAIN", "PL_HOOK_RGB_OVERLAY">>,
       <<"LINEAR", "PL_HOOK_LINEAR">>,
       <<"SIGMOID", "PL_HOOK_SIGMOID">>,
       <<"PREKERNEL", "PL_HOOK_PREKERNEL">>,
       <<"POSTKERNEL", "PL_HOOK_POSTKERNEL">>,
       <<"SCALED", "PL_HOOK_SCALED">>,
       <<"OUTPUT", "PL_HOOK_OUTPUT">> >>

\* enum pl_hook_stage: the single-bit stages the table names.
AllStages == { StageTable[i][2] : i \in 1..Len(StageTable) }

\* The chain of comparisons of mp_stage_to_pl is StageTable, in order.
\* mp_stage_to_pl: the first row whose name equals `stage`, else 0 (no bit).
mp_stage_to_pl(stage) ==
    LET hits == { i \in 1..Len(StageTable) : bstr_equals0(stage, StageTable[i][1]) }
    IN  IF hits = {} THEN {}
        ELSE { StageTable[CHOOSE i \in hits : \A j \in hits : i <= j][2] }

\* The cases of the switch of pl_stage_to_mp, in order.
StageNames ==
    << <<"PL_HOOK_RGB_INPUT", "RGB">>,
       <<"PL_HOOK_LUMA_INPUT", "LUMA">>,
       <<"PL_HOOK_CHROMA_INPUT", "CHROMA">>,
       <<"PL_HOOK_ALPHA_INPUT", "ALPHA">>,
       <<"PL_HOOK_XYZ_INPUT", "XYZ">>,
       <<"PL_HOOK_CHROMA_SCALED", "CHROMA_SCALED">>,
       <<"PL_HOOK_ALPHA_SCALED", "ALPHA_SCALED">>,
       <<"PL_HOOK_NATIVE", "NATIVE">>,
       <<"PL_HOOK_RGB", "MAINPRESUB">>,
       <<"PL_HOOK_RGB_OVERLAY", "MAIN">>,
       <<"PL_HOOK_LINEAR", "LINEAR">>,
       <<"PL_HOOK_SIGMOID", "SIGMOID">>,
       <<"PL_HOOK_PREKERNEL", "PREKERNEL">>,
       <<"PL_HOOK_POSTKERNEL", "POSTKERNEL">>,
       <<"PL_HOOK_SCALED", "SCALED">>,
       <<"PL_HOOK_OUTPUT", "OUTPUT">> >>

\* The switch with only its default case.
pl_stage_to_mp_default(stage) == "UNKNOWN"

\* pl_stage_to_mp: the switch over the stage, default "UNKNOWN".
pl_stage_to_mp(stage) ==
    LET hits == { i \in 1..Len(StageNames) : StageNames[i][1] = stage }
    IN  IF hits = {} THEN "UNKNOWN"
        ELSE StageNames[CHOOSE i \in hits : \A j \in hits : i <= j][2]

\* ------------------------------------------------------------ float values
RECURSIVE Gcd(_, _)
Gcd(a, b) == IF b = 0 THEN a ELSE Gcd(b, a % b)

Abs(x) == IF x < 0 THEN -x ELSE x

\* A rational in lowest terms with a positive denominator.
Rat(n, d) ==
    LET s == IF d < 0 THEN -1 ELSE 1
        g == Gcd(Abs(n), Abs(d))
    IN  [n |-> (s * n) \div g, d |-> (s * d) \div g]

F(k) == [n |-> k, d |-> 1]

RatLess(a, b) == a.n * b.d < b.n * a.d

\* ------------------------------------------------------- size expressions
\* struct szexp: a tag and the union member the tag selects.
Tok(tag, cval, varname, op) == [tag |-> tag, cval |-> cval, varname |-> varname, op |-> op]
SZEXP_END == Tok("END", F(0), NullStr, "")
TConst(k) == Tok("CONST", F(k), NullStr, "")
TVarW(name) == Tok("VAR_W", F(0), name, "")
TVarH(name) == Tok("VAR_H", F(0), name, "")
TOp2(op) == Tok("OP2", F(0), NullStr, op)
TOp1(op) == Tok("OP1", F(0), NullStr, op)

\* A struct szexp[MAX_SZEXP_SIZE] is held as the sequence of its slots up to
\* the last one ever written; the slots after it are zero (tag 0 is SZEXP_END).
ProgInit(toks) == toks

\* expr[i] for a 1-based slot i <= MAX_SZEXP_SIZE.
Slot(expr, i) == IF i <= Len(expr) THEN expr[i] ELSE SZEXP_END

\* expr[i] = tok.
SetSlot(expr, i, tok) ==
    IF i <= Len(expr) THEN [expr EXCEPT ![i] = tok]
    ELSE expr \o [j \in 1..(i - Len(expr) - 1) |-> SZEXP_END] \o << tok >>

\* The dyadic operators with the operands taken in the order they are
\* popped: the right operand first.
EvalOp2_reversed(op, op1, op2) ==
    CASE op = "ADD" -> [finite |-> TRUE, res |-> Rat(op1.n * op2.d + op2.n * op1.d, op1.d * op2.d)]
      [] op = "SUB" -> [finite |-> TRUE, res |-> Rat(op2.n * op1.d - op1.n * op2.d, op1.d * op2.d)]
      [] op = "MUL" -> [finite |-> TRUE, res |-> Rat(op1.n * op2.n, op1.d * op2.d)]
      [] op = "DIV" -> IF op1.n = 0 THEN [finite |-> FALSE, res |-> F(0)]
                       ELSE [finite |-> TRUE, res |-> Rat(op2.n * op1.d, op2.d * op1.n)]
      [] op = "GT"  -> [finite |-> TRUE, res |-> IF RatLess(op1, op2) THEN F(1) ELSE F(0)]
      [] op = "LT"  -> [finite |-> TRUE, res |-> IF RatLess(op2, op1) THEN F(1) ELSE F(0)]

\* The dyadic operators of pl_eval_szexpr; op1 is the left operand.
\* A non-finite result (division by zero) is reported as finite = FALSE.
EvalOp2(op, op1, op2) ==
    CASE op = "ADD" -> [finite |-> TRUE, res |-> Rat(op1.n * op2.d + op2.n * op1.d, op1.d * op2.d)]
      [] op = "SUB" -> [finite |-> TRUE, res |-> Rat(op1.n * op2.d - op2.n * op1.d, op1.d * op2.d)]
      [] op = "MUL" -> [finite |-> TRUE, res |-> Rat(op1.n * op2.n, op1.d * op2.d)]
      [] op = "DIV" -> IF op2.n = 0 THEN [finite |-> FALSE, res |-> F(0)]
                       ELSE [finite |-> TRUE, res |-> Rat(op1.n * op2.d, op1.d * op2.n)]
      [] op = "GT"  -> [finite |-> TRUE, res |-> IF RatLess(op2, op1) THEN F(1) ELSE F(0)]
      [] op = "LT"  -> [finite |-> TRUE, res |-> IF RatLess(op1, op2) THEN F(1) ELSE F(0)]

\* ---------------------------------------------------------------- textures
\* A struct pl_tex handle: a texture of the renderer's frame ("frame"), a
\* texture pl_tex_create made ("lut", numbered in creation order), or what an
\* uninitialised slot holds ("garbage").
FrameTex(k) == [kind |-> "frame", id |-> k]
LutTex(k) == [kind |-> "lut", id |-> k]
GarbageTex == [kind |-> "garbage", id |-> 0]

\* The sizes of the renderer's textures (tex->params.w, tex->params.h).
FrameSizes == << [w |-> 4, h |-> 2], [w |-> 2, h |-> 6], [w |-> 3, h |-> 3], [w |-> 6, h |-> 4] >>
FrameTexs == { FrameTex(k) : k \in 1..Len(FrameSizes) }

TexSize(tex) == IF tex.kind = "frame" THEN FrameSizes[tex.id] ELSE [w |-> 1, h |-> 1]

EvalFail(why) == [ok |-> FALSE, val |-> F(0), why |-> why]

\* A loop that keeps going after a slot compared equal stops at the last.
FirstHit_last(hits) == CHOOSE k \in hits : \A j \in hits : k >= j

\* The slot at which the loop of lookup_tex returns: the first that compares
\* equal.
FirstHit(hits) == CHOOSE k \in hits : \A j \in hits : k <= j

\* lookup_tex: the size of a named texture.  scope is struct szexp_ctx: the
\* stored pass-textures (the first num_pass_textures slots, in order) and the
\* hook parameters (hooked texture size, src_rect and dst_rect sizes).
lookup_tex(scope, var) ==
    IF bstr_equals0(var, "HOOKED")
      THEN [found |-> TRUE, w |-> scope.tex_w, h |-> scope.tex_h]
    ELSE IF bstr_equals0(var, "NATIVE_CROPPED")
      THEN [found |-> TRUE, w |-> scope.src_w, h |-> scope.src_h]
    ELSE IF bstr_equals0(var, "OUTPUT")
      THEN [found |-> TRUE, w |-> scope.dst_w, h |-> scope.dst_h]
    ELSE LET hits == { i \in 1..Len(scope.pass_textures) :
                         bstr_equals(var, scope.pass_textures[i].name) }
         IN  IF hits = {} THEN [found |-> FALSE, w |-> 0, h |-> 0]
             ELSE LET i == FirstHit(hits)
                  IN  [found |-> TRUE, w |-> TexSize(scope.pass_textures[i].tex).w,
                       h |-> TexSize(scope.pass_textures[i].tex).h]

\* The final test accepting any non-empty stack.
StackOk_nonempty(idx) == idx >= 1

\* The final test of pl_eval_szexpr: a single element is left.
StackOk(idx) == idx = 1

\* A stack one element shorter.
StackFull_short(idx) == idx >= MAX_SZEXP_SIZE - 1

\* float stack[MAX_SZEXP_SIZE]: no room is left at stack[idx], which is what
\* assert(idx < MAX_SZEXP_SIZE) excludes before a push.
StackFull(idx) == idx >= MAX_SZEXP_SIZE

\* The loop of pl_eval_szexpr from slot i (1-based) with the stack `stack`.
\* A push on a full stack ends the evaluation with "overflow".
RECURSIVE EvalFrom(_, _, _, _)
EvalFrom(scope, expr, i, stack) ==
    LET idx == Len(stack)
        done == IF ~StackOk(idx) THEN EvalFail("malformed")
                ELSE [ok |-> TRUE, val |-> stack[1], why |-> ""]
    IN
    IF i > MAX_SZEXP_SIZE THEN done
    ELSE LET e == Slot(expr, i) IN
      CASE e.tag = "END" -> done
        [] e.tag = "CONST" ->
             IF StackFull(idx) THEN EvalFail("overflow")
             ELSE EvalFrom(scope, expr, i + 1, Append(stack, e.cval))
        [] e.tag = "OP1" ->
             IF idx < 1 THEN EvalFail("underflow")
             ELSE EvalFrom(scope, expr, i + 1,
                           [stack EXCEPT ![idx] = IF stack[idx].n = 0 THEN F(1) ELSE F(0)])
        [] e.tag = "OP2" ->
             IF idx < 2 THEN EvalFail("underflow")
             ELSE LET r == EvalOp2(e.op, stack[idx - 1], stack[idx])
                  IN  IF ~r.finite THEN EvalFail("nonfinite")
                      ELSE IF StackFull(idx - 2) THEN EvalFail("overflow")
                      ELSE EvalFrom(scope, expr, i + 1,
                                    Append(SubSeq(stack, 1, idx - 2), r.res))
        [] e.tag \in {"VAR_W", "VAR_H"} ->
             LET size == lookup_tex(scope, e.varname)
             IN  IF ~size.found THEN EvalFail("missing")
                 ELSE IF StackFull(idx) THEN EvalFail("overflow")
                 ELSE EvalFrom(scope, expr, i + 1,
                               Append(stack, IF e.tag = "VAR_W" THEN F(size.w) ELSE F(size.h)))

pl_eval_szexpr(scope, expr) == EvalFrom(scope, expr, 1, << >>)

\* ------------------------------------------------------- lexed documents
\* A header line after the magic prefix: its keyword, and its operand as a
\* name, as whitespace-separated words (WIDTH, HEIGHT, WHEN) or as the
\* integers sscanf converts (SIZE, COMPUTE, OFFSET, COMPONENTS).
Dir(kw, name, words, ints) == [kw |-> kw, name |-> name, words |-> words, ints |-> ints]
DName(kw, name) == Dir(kw, name, << >>, << >>)
DWords(kw, words) == Dir(kw, "", words, << >>)
DInts(kw, ints) == Dir(kw, "", << >>, ints)

\* A word of an RPN line: NAME.w / NAME.width (kind "w"), NAME.h / NAME.height
\* (kind "h"), a word starting with an operator character (kind "op", name
\* the character), a word starting with a digit (kind "num"), anything else
\* (kind "bad").
Word(kind, name, val) == [kind |-> kind, name |-> name, val |-> val]
WW(name) == Word("w", name, 0)
WH(name) == Word("h", name, 0)
WOp(ch) == Word("op", ch, 0)
WNum(k) == Word("num", "", k)
WBad == Word("bad", "?", 0)

\* The token one word becomes (the switch of parse_rpn_szexpr).
WordToken(word) ==
    CASE word.kind = "w" -> TVarW(word.name)
      [] word.kind = "h" -> TVarH(word.name)
      [] word.kind = "op" /\ word.name = "+" -> TOp2("ADD")
      [] word.kind = "op" /\ word.name = "-" -> TOp2("SUB")
      [] word.kind = "op" /\ word.name = "*" -> TOp2("MUL")
      [] word.kind = "op" /\ word.name = "/" -> TOp2("DIV")
      [] word.kind = "op" /\ word.name = "!" -> TOp1("NOT")
      [] word.kind = "op" /\ word.name = ">" -> TOp2("GT")
      [] word.kind = "op" /\ word.name = "<" -> TOp2("LT")
      [] word.kind = "num" -> Tok("CONST", F(word.val), NullStr, "")
      [] OTHER -> SZEXP_END

\* The capacity test one slot late: a 33rd word is stored.
RpnFull_late(pos) == pos > MAX_SZEXP_SIZE

\* The capacity test before a word is stored at out[pos].
RpnFull(pos) == pos >= MAX_SZEXP_SIZE

\* parse_rpn_szexpr: the words are written into out from slot 0 on; no END
\* is written, the slots after the last word keep what they held.
RECURSIVE RpnFrom(_, _, _)
RpnFrom(words, k, out) ==
    IF k > Len(words) THEN [ok |-> TRUE, out |-> out]
    ELSE IF RpnFull(k - 1) THEN [ok |-> FALSE, out |-> out]
    ELSE IF words[k].kind = "bad" THEN [ok |-> FALSE, out |-> out]
    ELSE RpnFrom(words, k + 1, SetSlot(out, k, WordToken(words[k])))

parse_rpn_szexpr(words, out) == RpnFrom(words, 1, out)

\* struct custom_shader_hook as parse_hook initialises it.
HookDefault ==
    [pass_desc |-> "(unknown)",
     hook_tex |-> << >>,
     bind_tex |-> << >>,
     save_tex |-> NullStr,
     pass_body |-> << >>,
     width |-> ProgInit(<< TVarW("HOOKED") >>),
     height |-> ProgInit(<< TVarH("HOOKED") >>),
     cond |-> ProgInit(<< TConst(1) >>),
     is_compute |-> FALSE]

\* The header loop of parse_hook from header k; hook_tex and bind_tex hold
\* the hook_idx and bind_idx slots written so far (the others are NULL).
RECURSIVE ParseHookFrom(_, _, _)
ParseHookFrom(hdr, k, out) ==
    IF k > Len(hdr) THEN [ok |-> TRUE, hook |-> out]
    ELSE LET d == hdr[k]
             fail == [ok |-> FALSE, hook |-> out]
         IN
      CASE d.kw = "HOOK" ->
             IF Len(out.hook_tex) = SHADER_MAX_HOOKS THEN fail
             ELSE ParseHookFrom(hdr, k + 1, [out EXCEPT !.hook_tex = Append(@, d.name)])
        [] d.kw = "BIND" ->
             IF Len(out.bind_tex) = SHADER_MAX_BINDS THEN fail
             ELSE ParseHookFrom(hdr, k + 1, [out EXCEPT !.bind_tex = Append(@, d.name)])
        [] d.kw = "SAVE" -> ParseHookFrom(hdr, k + 1, [out EXCEPT !.save_tex = d.name])
        [] d.kw = "DESC" -> ParseHookFrom(hdr, k + 1, [out EXCEPT !.pass_desc = d.name])
        [] d.kw = "OFFSET" ->
             IF Len(d.ints) /= 2 THEN fail ELSE ParseHookFrom(hdr, k + 1, out)
        [] d.kw = "WIDTH" ->
             LET r == parse_rpn_szexpr(d.words, out.width)
             IN  IF ~r.ok THEN fail
                 ELSE ParseHookFrom(hdr, k + 1, [out EXCEPT !.width = r.out])
        [] d.kw = "HEIGHT" ->
             LET r == parse_rpn_szexpr(d.words, out.height)
             IN  IF ~r.ok THEN fail
                 ELSE ParseHookFrom(hdr, k + 1, [out EXCEPT !.height = r.out])
        [] d.kw = "WHEN" ->
             LET r == parse_rpn_szexpr(d.words, out.cond)
             IN  IF ~r.ok THEN fail
                 ELSE ParseHookFrom(hdr, k + 1, [out EXCEPT !.cond = r.out])
        [] d.kw = "COMPONENTS" ->
             IF Len(d.ints) /= 1 THEN fail ELSE ParseHookFrom(hdr, k + 1, out)
        [] d.kw = "COMPUTE" ->
             IF Len(d.ints) \in {2, 4}
               THEN ParseHookFrom(hdr, k + 1, [out EXCEPT !.is_compute = TRUE])
               ELSE fail
        [] OTHER -> fail

\* parse_hook on one section: the headers, then the body up to the next
\* magic line.
parse_hook(section) ==
    LET r == ParseHookFrom(section.hdr, 1, HookDefault)
    IN  IF ~r.ok THEN r
        ELSE [ok |-> TRUE, hook |-> [r.hook EXCEPT !.pass_body = section.body]]

\* ----------------------------------------------------------- the GPU
\* gpu->formats: name, opaque, caps (sampleable, linear), texel_size.
GpuFormats ==
    << [name |-> "r8", opaque |-> FALSE, sampleable |-> TRUE, linear |-> TRUE, texel_size |-> 1],
       [name |-> "rg8", opaque |-> FALSE, sampleable |-> TRUE, linear |-> FALSE, texel_size |-> 2],
       [name |-> "d16", opaque |-> TRUE, sampleable |-> TRUE, linear |-> FALSE, texel_size |-> 2],
       [name |-> "x8", opaque |-> FALSE, sampleable |-> FALSE, linear |-> FALSE, texel_size |-> 1] >>

\* gpu->limits.max_tex_{1,2,3}d_dim.
GpuLimits == << 4, 2, 2 >>

NoFormat == [name |-> NullStr, opaque |-> FALSE, sampleable |-> FALSE, linear |-> FALSE, texel_size |-> 0]

\* bstr_decode_hex of the section body, one character per element: two hex
\* digits per byte, anything else is refused.
HexDigits == << "0", "1", "2", "3", "4", "5", "6", "7", "8", "9", "a", "b", "c", "d", "e", "f" >>
HexVal(c) == (CHOOSE i \in 1..Len(HexDigits) : HexDigits[i] = c) - 1
IsHex(c) == \E i \in 1..Len(HexDigits) : HexDigits[i] = c
bstr_decode_hex(body) ==
    IF Len(body) % 2 /= 0 \/ \E i \in 1..Len(body) : ~IsHex(body[i])
      THEN [ok |-> FALSE, bytes |-> << >>]
      ELSE [ok |-> TRUE,
            bytes |-> [i \in 1..(Len(body) \div 2) |->
                         16 * HexVal(body[2 * i - 1]) + HexVal(body[2 * i])]]

\* struct pl_tex_params as parse_tex initialises it.
TexParamsDefault ==
    [w |-> 1, h |-> 1, d |-> 0, format |-> NoFormat,
     sample_mode |-> "NEAREST", address_mode |-> "CLAMP", initial_data |-> << >>]

\* PL_DEF without the default: a dimension left at 0 stays 0.
PL_DEF_nodefault(v, def) == v

PL_DEF(v, def) == IF v = 0 THEN def ELSE v

\* The SIZE directive: dims integers were converted into w, h, d in order.
ParseSize(ints, params) ==
    LET dims == Len(ints)
        p1 == [params EXCEPT !.w = IF dims >= 1 THEN ints[1] ELSE @,
                             !.h = IF dims >= 2 THEN ints[2] ELSE @,
                             !.d = IF dims >= 3 THEN ints[3] ELSE @]
        lim == IF dims \in 1..3 THEN GpuLimits[dims] ELSE 0
    IN  IF dims \notin 1..3 THEN [ok |-> FALSE, params |-> p1]
        ELSE IF dims >= 3 /\ (p1.d < 1 \/ p1.d > lim) THEN [ok |-> FALSE, params |-> p1]
        ELSE IF dims >= 2 /\ (p1.h < 1 \/ p1.h > lim) THEN [ok |-> FALSE, params |-> p1]
        ELSE IF p1.w < 1 \/ p1.w > lim THEN [ok |-> FALSE, params |-> p1]
        ELSE [ok |-> TRUE,
              params |-> [p1 EXCEPT !.d = IF dims < 3 THEN 0 ELSE @,
                                    !.h = IF dims < 2 THEN 0 ELSE @]]

\* The FORMAT directive: the first format of the GPU with that name.
ParseFormat(name, params) ==
    LET hits == { n \in 1..Len(GpuFormats) : bstr_equals0(name, GpuFormats[n].name) }
        fmt == IF hits = {} THEN NoFormat
               ELSE GpuFormats[CHOOSE n \in hits : \A m \in hits : n <= m]
    IN  IF hits = {} \/ fmt.opaque THEN [ok |-> FALSE, params |-> params]
        ELSE IF ~fmt.sampleable THEN [ok |-> FALSE, params |-> params]
        ELSE [ok |-> TRUE, params |-> [params EXCEPT !.format = fmt]]

\* The header loop of parse_tex from header k.
RECURSIVE ParseTexFrom(_, _, _, _)
ParseTexFrom(hdr, k, name, params) ==
    IF k > Len(hdr) THEN [ok |-> TRUE, name |-> name, params |-> params]
    ELSE LET d == hdr[k]
             fail == [ok |-> FALSE, name |-> name, params |-> params]
         IN
      CASE d.kw = "TEXTURE" -> ParseTexFrom(hdr, k + 1, d.name, params)
        [] d.kw = "SIZE" ->
             LET r == ParseSize(d.ints, params)
             IN  IF ~r.ok THEN fail ELSE ParseTexFrom(hdr, k + 1, name, r.params)
        [] d.kw = "FORMAT" ->
             LET r == ParseFormat(d.name, params)
             IN  IF ~r.ok THEN fail ELSE ParseTexFrom(hdr, k + 1, name, r.params)
        [] d.kw = "FILTER" ->
             IF d.name \in {"LINEAR", "NEAREST"}
               THEN ParseTexFrom(hdr, k + 1, name, [params EXCEPT !.sample_mode = d.name])
               ELSE fail
        [] d.kw = "BORDER" ->
             IF d.name \in {"CLAMP", "REPEAT", "MIRROR"}
               THEN ParseTexFrom(hdr, k + 1, name, [params EXCEPT !.address_mode = d.name])
               ELSE fail
        [] OTHER -> fail

\* parse_tex up to the call of pl_tex_create: whether the section asks for a
\* texture, and with which name and parameters.
parse_tex(section) ==
    LET r == ParseTexFrom(section.hdr, 1, "USER_TEX", TexParamsDefault)
        hex == bstr_decode_hex(section.body)
        texels == r.params.w * PL_DEF(r.params.h, 1) * PL_DEF(r.params.d, 1)
        expected_len == texels * r.params.format.texel_size
    IN  IF ~r.ok THEN r
        ELSE IF r.params.format.name = NullStr THEN [r EXCEPT !.ok = FALSE]
        ELSE IF r.params.sample_mode = "LINEAR" /\ ~r.params.format.linear
          THEN [r EXCEPT !.ok = FALSE]
        ELSE IF ~hex.ok THEN [r EXCEPT !.ok = FALSE]
        ELSE IF Len(hex.bytes) /= expected_len THEN [r EXCEPT !.ok = FALSE]
        ELSE r

\* ------------------------------------------------------------------ PRNG
\* A uint64_t as the set of its one bits (bit 0 is the least significant).
RECURSIVE HexBitsFrom(_, _)
HexBitsFrom(digits, k) ==
    IF k > Len(digits) THEN {}
    ELSE LET v == HexVal(digits[k])
             base == 4 * (Len(digits) - k)
         IN  { base + b : b \in { c \in 0..3 : (v \div (2 ^ c)) % 2 = 1 } }
             \cup HexBitsFrom(digits, k + 1)

Word64(digits) == HexBitsFrom(digits, 1)

Xor64(a, b) == (a \ b) \cup (b \ a)
Shl64(a, k) == { b + k : b \in { c \in a : c + k < 64 } }
Rotl64(a, k) == { (b + k) % 64 : b \in a }

\* A state zeroed by the allocation and never seeded.
PrngSeed_unseeded == << {}, {}, {}, {} >>

\* The seed pl_parse_mpv_user_shader stores.
PrngSeed ==
    << Word64(<<"b","7","6","d","7","1","f","9","4","4","3","c","2","2","8","a">>),
       Word64(<<"9","3","a","0","2","0","9","2","f","c","4","8","0","7","e","8">>),
       Word64(<<"0","6","d","8","1","7","4","8","f","8","3","8","b","d","0","7">>),
       Word64(<<"9","3","8","1","e","e","1","2","9","d","d","d","c","e","6","c">>) >>

\* prng_step: the state after one xoshiro256+ step (s is 1-based here).
prng_step(s) ==
    LET t == Shl64(s[2], 17)
        s2a == Xor64(s[3], s[1])
        s3a == Xor64(s[4], s[2])
        s1a == Xor64(s[2], s2a)
        s0a == Xor64(s[1], s3a)
        s2b == Xor64(s2a, t)
        s3b == Rotl64(s3a, 45)
    IN  << s0a, s1a, s2b, s3b >>

\* ------------------------------------------------------------ registration
\* The union of mp_stage_to_pl over the slots of a name array.
RECURSIVE StagesOf(_, _)
StagesOf(names, k) ==
    IF k > Len(names) THEN {}
    ELSE mp_stage_to_pl(names[k]) \cup StagesOf(names, k + 1)

\* Registration that saves at the bound stage names only.
register_hook_namesonly(hook) ==
    [pass |-> [exec_stages |-> StagesOf(hook.hook_tex, 1), hook |-> hook],
     save_stages |-> StagesOf(hook.bind_tex, 1)]

\* register_hook: the pass appended, and the bits added to save_stages.
register_hook(hook) ==
    LET exec_stages == StagesOf(hook.hook_tex, 1)
        binds_hooked == \E i \in 1..Len(hook.bind_tex) : bstr_equals0(hook.bind_tex[i], "HOOKED")
    IN  [pass |-> [exec_stages |-> exec_stages, hook |-> hook],
         save_stages |-> StagesOf(hook.bind_tex, 1)
                         \cup (IF binds_hooked THEN exec_stages ELSE {})]

\* Registration placing the newest texture first.
register_tex_front(p, tex) == [p EXCEPT !.lut_textures = << tex >> \o @]

\* register_tex: the texture appended to lut_textures.
register_tex(p, tex) == [p EXCEPT !.lut_textures = Append(@, tex)]

\* ------------------------------------------------------------ the dispatcher
PL_HOOK_STATUS_AGAIN == 1
PL_HOOK_STATUS_SAVE == 2

HasBit(ret, bit) == ret >= 0 /\ (ret \div bit) % 2 = 1

\* A failure that is swallowed into a non-negative status.
ErrorStatus_swallowed == -1 + 1

\* What hook_hook returns when a step fails (return -1).
ErrorStatus == -1

\* The SAVE bit set without looking at save_tex.
SaveBit_always(hook) == PL_HOOK_STATUS_SAVE

\* ret |= PL_HOOK_STATUS_SAVE if the pass names a texture to save.
SaveBit(hook) == IF hook.save_tex /= NullStr THEN PL_HOOK_STATUS_SAVE ELSE 0

\* The AGAIN bit off by one: set while count < total_count.
AgainBit_offbyone(count, total_count) ==
    IF count < total_count THEN PL_HOOK_STATUS_AGAIN ELSE 0

\* ret |= PL_HOOK_STATUS_AGAIN if more passes follow at this stage.
AgainBit(count, total_count) ==
    IF count + 1 < total_count THEN PL_HOOK_STATUS_AGAIN ELSE 0

\* The entry save without the test of count: once per call, not per stage.
SaveOnEntry_everycount(p, params) == params.stage \in p.save_stages

\* Whether hook_hook saves the hooked texture on entry.
SaveOnEntry(p, params) == params.count = 0 /\ params.stage \in p.save_stages

\* TARRAY_APPEND on the pass-texture array: the entry goes into slot num (an
\* older entry left there by a previous frame is overwritten) and num grows.
AppendPassTex(arr, num, ptex) ==
    IF num < Len(arr) THEN [arr EXCEPT ![num + 1] = ptex] ELSE Append(arr, ptex)

\* The selection loop of hook_hook from pass i: pass is the first match
\* reached with total_count >= count (0: none), total_count counts all matches.
RECURSIVE HookSelectFrom(_, _, _, _, _, _)
HookSelectFrom(hook_passes, stage, count, i, total_count, pass) ==
    IF i > Len(hook_passes) THEN [pass |-> pass, total_count |-> total_count]
    ELSE IF hook_passes[i].exec_stages \cap {stage} /= {}
      THEN IF total_count < count
             THEN HookSelectFrom(hook_passes, stage, count, i + 1, total_count + 1, pass)
             ELSE HookSelectFrom(hook_passes, stage, count, i + 1, total_count + 1,
                                 IF pass = 0 THEN i ELSE pass)
      ELSE HookSelectFrom(hook_passes, stage, count, i + 1, total_count, pass)

\* The selection with total_count++ <= count: one match too many is skipped.
HookSelect_skipone(hook_passes, stage, count) ==
    HookSelectFrom(hook_passes, stage, count + 1, 1, 0, 0)

HookSelect(hook_passes, stage, count) == HookSelectFrom(hook_passes, stage, count, 1, 0, 0)

\* The selection loop of hook_save from pass i: it stops at the first match
\* reached with total_count >= count.
RECURSIVE SaveSelectFrom(_, _, _, _, _)
SaveSelectFrom(hook_passes, stage, count, i, total_count) ==
    IF i > Len(hook_passes) THEN 0
    ELSE IF hook_passes[i].exec_stages \cap {stage} /= {}
      THEN IF total_count < count
             THEN SaveSelectFrom(hook_passes, stage, count, i + 1, total_count + 1)
             ELSE i
      ELSE SaveSelectFrom(hook_passes, stage, count, i + 1, total_count)

\* The same slip in hook_save.
SaveSelect_skipone(hook_passes, stage, count) ==
    SaveSelectFrom(hook_passes, stage, count + 1, 1, 0)

SaveSelect(hook_passes, stage, count) == SaveSelectFrom(hook_passes, stage, count, 1, 0)

\* The input variables set up without counting the frame.
NextFrame_uncounted(p) == [p EXCEPT !.prng_state = prng_step(@)]

\* The input variables of an emitted pass: p->frame_count++ and one step of
\* the generator.
NextFrame(p) == [p EXCEPT !.frame_count = @ + 1, !.prng_state = prng_step(@)]

\* struct szexp_ctx for one call: the stored pass-textures and the sizes the
\* hook parameters carry.
Scope(pass_textures, num, params) ==
    [pass_textures |-> SubSeq(pass_textures, 1, num),
     tex_w |-> TexSize(params.tex).w, tex_h |-> TexSize(params.tex).h,
     src_w |-> params.src_rect.w, src_h |-> params.src_rect.h,
     dst_w |-> params.dst_rect.w, dst_h |-> params.dst_rect.h]

\* A descriptor the shader got: the macro prefix, how it was bound
\* ("hook": bind_hook_tex, "lut": sh_desc) and the texture.
Bound(name, kind, tex) == [name |-> name, kind |-> kind, tex |-> tex]

\* A name no document holds: what an uninitialised slot holds when it does not
\* compare equal.
GarbageName == "<uninitialised>"

\* What p->lut_textures[i] reads (i is 0-based): the slot, or for a slot past
\* num_lut_textures an uninitialised value, which env.oob_lut decides to
\* compare equal to the name or not.
LutSlot(lut_textures, i, texname, env) ==
    IF i < Len(lut_textures) THEN lut_textures[i + 1]
    ELSE [name |-> IF i \in env.oob_lut THEN texname ELSE GarbageName, tex |-> GarbageTex]

\* The same for p->pass_textures[i]: a slot an earlier frame wrote keeps its
\* entry after hook_reset; a slot never written is uninitialised.
PassSlot(pass_textures, i, texname, env) ==
    IF i < Len(pass_textures) THEN pass_textures[i + 1]
    ELSE [name |-> IF i \in env.oob_pass THEN texname ELSE GarbageName, tex |-> GarbageTex]

SlotMatches(texname, slot) == bstr_equals(texname, slot.name)

\* The bind loop of hook_hook from slot i (0-based) of bind_tex.
RECURSIVE BindFrom(_, _, _, _, _, _)
BindFrom(p, hook, params, env, i, binds) ==
    IF i >= SHADER_MAX_BINDS \/ i >= Len(hook.bind_tex) THEN [ok |-> TRUE, binds |-> binds]
    ELSE LET texname == hook.bind_tex[i + 1]
             stage == pl_stage_to_mp(params.stage)
             lut == LutSlot(p.lut_textures, i, texname, env)
             ptex == PassSlot(p.pass_textures, i, texname, env)
         IN
      IF bstr_equals0(texname, "HOOKED") THEN
          IF params.tex \in env.bad THEN [ok |-> FALSE, binds |-> binds]
          ELSE BindFrom(p, hook, params, env, i + 1,
                        Append(Append(binds, Bound(stage, "hook", params.tex)),
                               Bound("HOOKED", "alias", params.tex)))
      ELSE IF Len(p.lut_textures) > 0 /\ SlotMatches(texname, lut) THEN
          BindFrom(p, hook, params, env, i + 1, Append(binds, Bound(texname, "lut", lut.tex)))
      ELSE IF p.num_pass_textures > 0 /\ SlotMatches(texname, ptex) THEN
          IF ptex.tex \in env.bad THEN [ok |-> FALSE, binds |-> binds]
          ELSE BindFrom(p, hook, params, env, i + 1, Append(binds, Bound(texname, "hook", ptex.tex)))
      ELSE BindFrom(p, hook, params, env, i + 1, binds)

\* hook_hook: the status returned and the state it leaves.  params is
\* struct pl_hook_params (stage, count, tex, src_rect, dst_rect); env is what
\* the collaborators answer: compute_ok (sh_try_compute), require_ok
\* (sh_require), bad (the textures sh_bind refuses), oob_lut and oob_pass.
\* The result also reports the pass selected, total_count, the step that
\* failed, whether the body was emitted and the descriptors bound.
hook_hook(p, params, env) ==
    LET stage == pl_stage_to_mp(params.stage)
        entry == SaveOnEntry(p, params)
        arr1 == IF entry
                  THEN AppendPassTex(p.pass_textures, p.num_pass_textures,
                                     [name |-> stage, tex |-> params.tex])
                  ELSE p.pass_textures
        num1 == IF entry THEN p.num_pass_textures + 1 ELSE p.num_pass_textures
        p1 == [p EXCEPT !.pass_textures = arr1, !.num_pass_textures = num1]
        sel == HookSelect(p.hook_passes, params.stage, params.count)
        hook == p.hook_passes[sel.pass].hook
        scope == Scope(arr1, num1, params)
        again == AgainBit(params.count, sel.total_count)
        out(ret, failure, emitted, binds, p2) ==
            [ret |-> ret, failure |-> failure, emitted |-> emitted, binds |-> binds,
             pass |-> sel.pass, total_count |-> sel.total_count, p |-> p2]
    IN
    IF sel.pass = 0 THEN out(0, "", FALSE, << >>, p1)
    ELSE LET run == pl_eval_szexpr(scope, hook.cond) IN
      IF ~run.ok THEN out(ErrorStatus, "cond", FALSE, << >>, p1)
      ELSE IF run.val.n = 0 THEN out(again, "", FALSE, << >>, p1)
      ELSE IF hook.is_compute /\ ~env.compute_ok THEN out(ErrorStatus, "compute", FALSE, << >>, p1)
      ELSE IF ~pl_eval_szexpr(scope, hook.width).ok THEN out(ErrorStatus, "width", FALSE, << >>, p1)
      ELSE IF ~pl_eval_szexpr(scope, hook.height).ok THEN out(ErrorStatus, "height", FALSE, << >>, p1)
      ELSE IF ~env.require_ok THEN out(ErrorStatus, "require", FALSE, << >>, p1)
      ELSE LET b == BindFrom(p1, hook, params, env, 0, << >>) IN
        IF ~b.ok THEN out(ErrorStatus, "bind", FALSE, b.binds, p1)
        ELSE out(SaveBit(hook) + again, "", TRUE, b.binds, NextFrame(p1))

\* hook_save: the pass it selects, what its two assertions find, and the
\* pass-texture array after the append.
hook_save(p, params) ==
    LET pass == SaveSelect(p.hook_passes, params.stage, params.count)
        asserts == pass /= 0 /\ p.hook_passes[pass].hook.save_tex /= NullStr
    IN  [pass |-> pass, asserts |-> asserts,
         p |-> IF ~asserts THEN p
               ELSE [p EXCEPT
                       !.pass_textures = AppendPassTex(@, p.num_pass_textures,
                                           [name |-> p.hook_passes[pass].hook.save_tex,
                                            tex |-> params.tex]),
                       !.num_pass_textures = @ + 1]]

\* hook_reset.
hook_reset(p) == [p EXCEPT !.num_pass_textures = 0]

\* --------------------------------------------------------------- documents
Section(hdr, body) == [hdr |-> hdr, body |-> body]

BodyText == << "v", "o", "i", "d" >>

\* //!HOOK RGB //!BIND HOOKED //!SAVE T1
SecA == Section(<< DName("HOOK", "RGB"), DName("BIND", "HOOKED"), DName("SAVE", "T1") >>, BodyText)
\* //!HOOK RGB //!HOOK LUMA //!BIND T1 //!SAVE T2 //!WHEN HOOKED.w 2 >
SecB == Section(<< DName("HOOK", "RGB"), DName("HOOK", "LUMA"), DName("BIND", "T1"),
                   DName("SAVE", "T2"),
                   DWords("WHEN", << WW("HOOKED"), WNum(2), WOp(">") >>) >>, BodyText)
\* //!DESC c //!HOOK LUMA //!BIND L2 //!BIND T1 //!COMPUTE 8 8
\* //!WIDTH OUTPUT.w 2 / //!HEIGHT OUTPUT.height
SecC == Section(<< DName("DESC", "c"), DName("HOOK", "LUMA"), DName("BIND", "L2"),
                   DName("BIND", "T1"), DInts("COMPUTE", << 8, 8 >>),
                   DWords("WIDTH", << WW("OUTPUT"), WNum(2), WOp("/") >>),
                   DWords("HEIGHT", << WH("OUTPUT") >>) >>, BodyText)
\* //!HOOK RGB //!BIND HOOKED //!BIND T1 //!SAVE T1
SecD == Section(<< DName("HOOK", "RGB"), DName("BIND", "HOOKED"), DName("BIND", "T1"),
                   DName("SAVE", "T1") >>, BodyText)
\* //!TEXTURE L1 //!SIZE 2 //!FORMAT r8 //!FILTER LINEAR, two bytes
SecL1 == Section(<< DName("TEXTURE", "L1"), DInts("SIZE", << 2 >>), DName("FORMAT", "r8"),
                    DName("FILTER", "LINEAR") >>, << "0", "1", "f", "f" >>)
\* //!TEXTURE L2 //!FORMAT rg8 //!BORDER REPEAT, two bytes
SecL2 == Section(<< DName("TEXTURE", "L2"), DName("FORMAT", "rg8"),
                    DName("BORDER", "REPEAT") >>, << "a", "0", "0", "b" >>)

\* Hook sections whose expressions fail when evaluated.
\* //!HOOK RGB //!BIND HOOKED //!SAVE T3 //!WHEN 1 HOOKED.w 2 - /
SecCondDiv == Section(<< DName("HOOK", "RGB"), DName("BIND", "HOOKED"), DName("SAVE", "T3"),
                         DWords("WHEN", << WNum(1), WW("HOOKED"), WNum(2), WOp("-"), WOp("/") >>) >>,
                      BodyText)
\* //!HOOK RGB //!WIDTH + //!HEIGHT 1 1
SecWidthUnder == Section(<< DName("HOOK", "RGB"), DWords("WIDTH", << WOp("+") >>) >>, BodyText)
\* //!HOOK RGB //!HEIGHT 1 1 //!OFFSET 1 2 //!COMPONENTS 4
SecHeightMal == Section(<< DName("HOOK", "RGB"), DWords("HEIGHT", << WNum(1), WNum(1) >>),
                           DInts("OFFSET", << 1, 2 >>), DInts("COMPONENTS", << 4 >>) >>, BodyText)
\* //!HOOK LUMA //!BIND RGB //!BIND L1 //!WHEN RGB.w 3 <
SecBindStage == Section(<< DName("HOOK", "LUMA"), DName("BIND", "RGB"), DName("BIND", "L1"),
                           DWords("WHEN", << WW("RGB"), WNum(3), WOp("<"), WOp("!") >>) >>, BodyText)
\* //!BIND HOOKED //!SAVE T1 (no HOOK directive)
SecNoHook == Section(<< DName("BIND", "HOOKED"), DName("SAVE", "T1") >>, BodyText)
\* //!BIND LUMA //!SAVE T1 (no HOOK directive, a stage bound by name)
SecNoHookBind == Section(<< DName("BIND", "LUMA"), DName("SAVE", "T1") >>, BodyText)

\* Sections that do not parse.
SecBadDirective == Section(<< DName("HOOK", "RGB"), DName("FOO", "") >>, BodyText)
SecBadWord == Section(<< DName("HOOK", "RGB"), DWords("WIDTH", << WNum(1), WBad >>) >>, BodyText)
SecBadCompute == Section(<< DName("HOOK", "RGB"), DInts("COMPUTE", << 1, 2, 3 >>) >>, BodyText)
SecTexNoFormat == Section(<< DName("TEXTURE", "L3") >>, << "0", "0" >>)
SecTexShort == Section(<< DName("TEXTURE", "L3"), DInts("SIZE", << 2, 2 >>), DName("FORMAT", "r8") >>,
                       << "0", "0", "0", "0", "0", "0" >>)
SecTexBadHex == Section(<< DName("TEXTURE", "L3"), DName("FORMAT", "r8") >>, << "0", "g" >>)
SecTexTooBig == Section(<< DName("TEXTURE", "L3"), DInts("SIZE", << 5 >>), DName("FORMAT", "r8") >>,
                        << "0", "0" >>)
SecTexOpaque == Section(<< DName("TEXTURE", "L3"), DName("FORMAT", "d16") >>, << "0", "0", "0", "0" >>)
SecTexLinear == Section(<< DName("TEXTURE", "L3"), DName("FORMAT", "rg8"), DName("FILTER", "LINEAR") >>,
                        << "0", "0", "0", "0" >>)

\* The documents parsed.
Docs ==
    { << >>,
      << SecA >>, << SecB >>, << SecA, SecA >>, << SecA, SecB >>, << SecB, SecA >>,
      << SecA, SecB, SecA >>, << SecD >>, << SecA, SecD >>, << SecB, SecC >>,
      << SecA, SecC >>, << SecL1, SecA >>, << SecL1, SecL2 >>, << SecL1, SecL2, SecC >>,
      << SecA, SecCondDiv >>, << SecWidthUnder, SecA >>, << SecHeightMal >>,
      << SecA, SecBindStage >>, << SecL1, SecBindStage >>, << SecNoHook, SecA >>,
      << SecNoHookBind, SecA >>,
      << SecBadDirective >>, << SecA, SecBadWord >>, << SecL1, SecBadCompute >>,
      << SecTexNoFormat >>, << SecL1, SecTexShort >>, << SecL2, SecL1, SecTexBadHex >>,
      << SecTexTooBig >>, << SecA, SecTexOpaque >>, << SecL1, SecTexLinear >> }

\* The stages the renderer dispatches on, and the rectangles of its frame.
StagesUsed == { "PL_HOOK_RGB_INPUT", "PL_HOOK_LUMA_INPUT" }

\* The texture the renderer holds at a stage (params->tex of hook_hook), and
\* the textures it may report as a saved output (params->tex of hook_save).
StageTex(stage) == IF stage = "PL_HOOK_RGB_INPUT" THEN FrameTex(1) ELSE FrameTex(2)
SavedTexs == { FrameTex(3), FrameTex(4) }
SrcRects == { [w |-> 8, h |-> 4] }
DstRects == { [w |-> 16, h |-> 10] }

\* -------------------------------------------------------------------- state
VARIABLES
    phase,   \* "parsing", "live" (a hook object was returned), "null" (the
             \* parse returned NULL), "destroyed"
    doc,     \* the sections parse_user_shader has not consumed yet
    priv,    \* struct hook_priv
    stages,  \* hook->stages
    gpu,     \* the textures pl_tex_create made: how many, which are live,
             \* the calls of pl_tex_destroy in order, and the parameters
             \* each texture was created with
    last     \* the last call on the hook object and what it returned

vars == << phase, doc, priv, stages, gpu, last >>

\* The collaborators all succeed and no uninitialised slot compares equal.
EnvOk == [compute_ok |-> TRUE, require_ok |-> TRUE, bad |-> {}, oob_lut |-> {}, oob_pass |-> {}]

PrivInit ==
    [hook_passes |-> << >>, lut_textures |-> << >>, save_stages |-> {},
     pass_textures |-> << >>, num_pass_textures |-> 0,
     frame_count |-> 0, prng_state |-> PrngSeed]

NoCall ==
    [op |-> "none", stage |-> "", count |-> 0, tex |-> GarbageTex, ret |-> 0,
     pass |-> 0, total_count |-> 0, failure |-> "", emitted |-> FALSE,
     binds |-> << >>, asserts |-> TRUE, env |-> EnvOk,
     src_rect |-> [w |-> 0, h |-> 0], dst_rect |-> [w |-> 0, h |-> 0]]

\* No texture was created yet.
GpuInit == [created |-> 0, live |-> {}, destroyed |-> << >>, made |-> << >>]

Init ==
    /\ phase = "parsing"
    /\ doc \in Docs
    /\ priv = PrivInit
    /\ stages = {}
    /\ gpu = GpuInit
    /\ last = NoCall

\* The error path of pl_parse_mpv_user_shader: talloc_free(hook), return NULL.
ParseError ==
    /\ phase' = "null"
    /\ doc' = << >>
    /\ priv' = PrivInit
    /\ stages' = {}
    /\ last' = [NoCall EXCEPT !.op = "parse_error"]

\* parse_user_shader finds no header at all in the text.
ParseNoHeader ==
    /\ phase = "parsing" /\ doc = << >>
    /\ priv.hook_passes = << >> /\ priv.lut_textures = << >>
    /\ ParseError
    /\ UNCHANGED gpu

\* One turn of the loop of parse_user_shader on a TEXTURE section: parse_tex
\* and register_tex.  The GPU may refuse to create the texture.
ParseTexSection ==
    /\ phase = "parsing" /\ doc /= << >>
    /\ Head(doc).hdr[1].kw = "TEXTURE"
    /\ \E r \in { parse_tex(Head(doc)) }, create_ok \in BOOLEAN :
         IF r.ok /\ create_ok
           THEN /\ gpu' = [gpu EXCEPT !.created = @ + 1, !.live = @ \cup {LutTex(gpu.created + 1)},
                                       !.made = Append(@, r.params)]
                /\ priv' = register_tex(priv, [name |-> r.name, tex |-> LutTex(gpu.created + 1)])
                /\ doc' = Tail(doc)
                /\ last' = [NoCall EXCEPT !.op = "parse_tex"]
                /\ UNCHANGED << phase, stages >>
           ELSE /\ ParseError
                /\ UNCHANGED gpu

\* One turn of the loop on any other section: parse_hook and register_hook.
ParseHookSection ==
    /\ phase = "parsing" /\ doc /= << >>
    /\ Head(doc).hdr[1].kw /= "TEXTURE"
    /\ \E r \in { parse_hook(Head(doc)) } :
         IF r.ok
           THEN /\ priv' = [priv EXCEPT
                              !.hook_passes = Append(@, register_hook(r.hook).pass),
                              !.save_stages = @ \cup register_hook(r.hook).save_stages]
                /\ doc' = Tail(doc)
                /\ last' = [NoCall EXCEPT !.op = "parse_hook"]
                /\ UNCHANGED << phase, stages, gpu >>
           ELSE /\ ParseError
                /\ UNCHANGED gpu

\* The text is used up: hook->stages is computed and the hook returned.
ParseFinish ==
    /\ phase = "parsing" /\ doc = << >>
    /\ priv.hook_passes /= << >> \/ priv.lut_textures /= << >>
    /\ phase' = "live"
    /\ stages' = priv.save_stages
                 \cup UNION { priv.hook_passes[i].exec_stages : i \in 1..Len(priv.hook_passes) }
    /\ last' = [NoCall EXCEPT !.op = "parse_done"]
    /\ UNCHANGED << doc, priv, gpu >>

\* The textures a call bound through sh_bind.
BoundBySh(binds) == { binds[i].tex : i \in { k \in 1..Len(binds) : binds[k].kind = "hook" } }

\* What the collaborators may answer during one call of hook_hook, one
\* answer per outcome: the first step that fails decides the call, so one
\* failing collaborator at a time is enough, and sh_bind is only asked about
\* the textures the call binds.
EnvSet(p, params) ==
    LET sel == HookSelect(p.hook_passes, params.stage, params.count)
        hook == p.hook_passes[sel.pass].hook
        r0 == hook_hook(p, params, EnvOk)
        slots == 0..(Len(hook.bind_tex) - 1)
        oobs == { [EnvOk EXCEPT !.oob_lut = ol, !.oob_pass = op] :
                    ol \in (IF Len(r0.p.lut_textures) = 0 THEN {{}}
                            ELSE SUBSET { i \in slots : i >= Len(r0.p.lut_textures) }),
                    op \in (IF r0.p.num_pass_textures = 0 THEN {{}}
                            ELSE SUBSET { i \in slots : i >= Len(r0.p.pass_textures) }) }
    IN  IF sel.pass = 0 THEN {EnvOk}
        ELSE {EnvOk}
             \cup (IF hook.is_compute THEN {[EnvOk EXCEPT !.compute_ok = FALSE]} ELSE {})
             \cup (IF ~r0.emitted THEN {}
                   ELSE {[EnvOk EXCEPT !.require_ok = FALSE]}
                        \cup UNION { {e} \cup { [e EXCEPT !.bad = {t}] :
                                                  t \in BoundBySh(hook_hook(p, params, e).binds) } :
                                     e \in oobs })

\* The renderer dispatches the hook at a stage.
HookHook ==
    /\ phase = "live"
    /\ priv.num_pass_textures < MaxPassTex
    /\ \E stage \in StagesUsed, count \in 0..Len(priv.hook_passes),
          src \in SrcRects, dst \in DstRects :
         \E params \in { [stage |-> stage, count |-> count, tex |-> StageTex(stage),
                          src_rect |-> src, dst_rect |-> dst] } :
           \E env \in EnvSet(priv, params) :
             \E r \in { hook_hook(priv, params, env) } :
                 /\ r.p.frame_count <= MaxFrames
                 /\ priv' = r.p
                 /\ last' = [op |-> "hook", stage |-> stage, count |-> count, tex |-> params.tex,
                             ret |-> r.ret, pass |-> r.pass, total_count |-> r.total_count,
                             failure |-> r.failure, emitted |-> r.emitted,
                             binds |-> r.binds, asserts |-> TRUE, env |-> env,
                             src_rect |-> src, dst_rect |-> dst]
    /\ UNCHANGED << phase, doc, stages, gpu >>

\* The renderer reports the output of the pass it was just asked to save.
HookSave ==
    /\ phase = "live"
    /\ last.op = "hook" /\ HasBit(last.ret, PL_HOOK_STATUS_SAVE)
    /\ priv.num_pass_textures < MaxPassTex
    /\ \E tex \in SavedTexs :
         \E r \in { hook_save(priv, [stage |-> last.stage, count |-> last.count, tex |-> tex]) } :
             /\ priv' = r.p
             /\ last' = [NoCall EXCEPT !.op = "save", !.stage = last.stage,
                                       !.count = last.count, !.tex = tex,
                                       !.pass = r.pass, !.asserts = r.asserts]
    /\ UNCHANGED << phase, doc, stages, gpu >>

\* The renderer ends the frame.
HookReset ==
    /\ phase = "live"
    /\ priv' = hook_reset(priv)
    /\ last' = [NoCall EXCEPT !.op = "reset"]
    /\ UNCHANGED << phase, doc, stages, gpu >>

\* The loop of pl_destroy_mpv_user_shader stopping one texture early.
DestroyedTexs_short(p) == [i \in 1..(Len(p.lut_textures) - 1) |-> p.lut_textures[i].tex]

\* The textures pl_destroy_mpv_user_shader hands to pl_tex_destroy, in order.
DestroyedTexs(p) == [i \in 1..Len(p.lut_textures) |-> p.lut_textures[i].tex]

RECURSIVE SeqToSet(_)
SeqToSet(q) == IF q = << >> THEN {} ELSE {Head(q)} \cup SeqToSet(Tail(q))

\* pl_destroy_mpv_user_shader on a hook object.
Destroy ==
    /\ phase = "live"
    /\ phase' = "destroyed"
    /\ gpu' = [gpu EXCEPT !.live = @ \ SeqToSet(DestroyedTexs(priv)),
                          !.destroyed = @ \o DestroyedTexs(priv)]
    /\ priv' = PrivInit
    /\ stages' = {}
    /\ last' = [NoCall EXCEPT !.op = "destroy"]
    /\ UNCHANGED doc

\* pl_destroy_mpv_user_shader on the NULL a failed parse returned.
DestroyNull ==
    /\ phase = "null"
    /\ last.op /= "destroy"
    /\ last' = [NoCall EXCEPT !.op = "destroy"]
    /\ UNCHANGED << phase, doc, priv, stages, gpu >>

Next ==
    \/ ParseNoHeader
    \/ ParseTexSection
    \/ ParseHookSection
    \/ ParseFinish
    \/ HookHook
    \/ HookSave
    \/ HookReset
    \/ Destroy
    \/ DestroyNull

Spec == Init /\ [][Next]_vars

\* ------------------------------------------------------------- properties
\* What the last call of hook_hook was given, and what its pass reads.
LastParams ==
    [stage |-> last.stage, count |-> last.count, tex |-> last.tex,
     src_rect |-> last.src_rect, dst_rect |-> last.dst_rect]

LastHook == priv.hook_passes[last.pass].hook

LastScope == Scope(priv.pass_textures, priv.num_pass_textures, LastParams)

LastCond == pl_eval_szexpr(LastScope, LastHook.cond)

\* The registered passes that execute at a stage, counted and indexed
\* without the loops of the dispatcher.
Matching(hook_passes, stage) ==
    { i \in 1..Len(hook_passes) : stage \in hook_passes[i].exec_stages }

MatchCount(stage) == Cardinality(Matching(priv.hook_passes, stage))

NthMatch(hook_passes, stage, count) ==
    LET M == Matching(hook_passes, stage)
        C == { i \in M : Cardinality({ j \in M : j < i }) = count }
    IN  IF C = {} THEN 0 ELSE CHOOSE i \in C : TRUE

\* C1: with N passes executing at a stage and no step failing, the calls
\* with count 0..N-1 return a non-negative status whose AGAIN bit is set
\* exactly when count + 1 < N, and the call with count N (or more) returns 0.
C1_AgainAccounting ==
    last.op = "hook" /\ last.failure = "" =>
        LET N == MatchCount(last.stage) IN
        /\ last.count < N =>
             /\ last.ret >= 0
             /\ HasBit(last.ret, PL_HOOK_STATUS_AGAIN) <=> (last.count + 1 < N)
        /\ last.count >= N => last.ret = 0

C1_Witness ==
    /\ last.op = "hook" /\ last.failure = "" /\ last.pass /= 0
    /\ MatchCount(last.stage) = 3 /\ last.count = 1
    /\ HasBit(last.ret, PL_HOOK_STATUS_AGAIN)

\* C2: hook_hook selects the count-th (from 0) pass in registration order
\* among those executing at the stage; when fewer than count + 1 match it
\* selects none, returns 0, binds and emits nothing and leaves frame_count
\* and the PRNG state alone.
C2_SelectsCountTh ==
    [][ last'.op = "hook" =>
          /\ last'.pass = NthMatch(priv.hook_passes, last'.stage, last'.count)
          /\ last'.pass = 0 =>
               /\ last'.ret = 0 /\ last'.binds = << >> /\ ~last'.emitted
               /\ priv'.frame_count = priv.frame_count
               /\ priv'.prng_state = priv.prng_state ]_vars

C2_Witness == last.op = "hook" /\ last.pass > last.count + 1

\* C3: for every pass list a parse returns (the list never changes
\* afterwards) hook_save selects the same pass as hook_hook for every stage
\* and count, and a save that follows a status with the SAVE bit passes both
\* assertions and appends exactly one pass-texture, named by the save_tex of
\* that pass and holding the texture given.
C3_SaveSelectsSamePass ==
    [][ /\ phase = "parsing" /\ phase' = "live" =>
             \A stage \in AllStages, count \in 0..(Len(priv'.hook_passes) + 1) :
                SaveSelect(priv'.hook_passes, stage, count)
                  = HookSelect(priv'.hook_passes, stage, count).pass
        /\ last.op = "hook" /\ last'.op = "save" =>
             /\ last'.asserts /\ last'.pass = last.pass
             /\ priv'.num_pass_textures = priv.num_pass_textures + 1
             /\ priv'.pass_textures[priv'.num_pass_textures]
                  = [name |-> priv.hook_passes[last.pass].hook.save_tex, tex |-> last'.tex]
             /\ \A k \in 1..priv.num_pass_textures :
                  priv'.pass_textures[k] = priv.pass_textures[k] ]_vars

C3_Witness ==
    /\ last.op = "save" /\ last.asserts /\ last.pass >= 2 /\ last.count >= 1
    /\ priv.pass_textures[priv.num_pass_textures].name
         = priv.hook_passes[last.pass].hook.save_tex

\* A hook object as parsed: no pass-texture was ever stored.
FreshOf(p) == [p EXCEPT !.pass_textures = << >>, !.num_pass_textures = 0]

\* C4: after hook_reset no pass-texture is stored, and the call of hook_hook
\* that follows resolves names as on a freshly parsed hook object: its
\* status, the step that failed and the descriptors bound are those a fresh
\* object can give.
C4_ResetIsFresh ==
    [][ /\ last'.op = "reset" => priv'.num_pass_textures = 0
        /\ last.op = "reset" /\ last'.op = "hook" =>
             \E params \in { [stage |-> last'.stage, count |-> last'.count,
                              tex |-> last'.tex, src_rect |-> last'.src_rect,
                              dst_rect |-> last'.dst_rect] } :
               \E env \in EnvSet(FreshOf(priv), params) :
                 \E r \in { hook_hook(FreshOf(priv), params, env) } :
                   /\ r.ret = last'.ret
                   /\ r.failure = last'.failure
                   /\ r.binds = last'.binds ]_vars

\* C5: the SAVE bit is set exactly when the selected pass names a save_tex
\* and its body was emitted; a pass whose condition is zero is skipped: no
\* SAVE bit even with a save_tex, and AGAIN still as count + 1 < total_count.
C5_SaveBitAndSkip ==
    last.op = "hook" =>
        /\ HasBit(last.ret, PL_HOOK_STATUS_SAVE)
             <=> (last.pass /= 0 /\ LastHook.save_tex /= NullStr /\ last.emitted)
        /\ last.pass /= 0 /\ LastCond.ok /\ LastCond.val.n = 0 =>
             /\ ~last.emitted /\ last.ret >= 0
             /\ ~HasBit(last.ret, PL_HOOK_STATUS_SAVE)
             /\ HasBit(last.ret, PL_HOOK_STATUS_AGAIN)
                  <=> (last.count + 1 < MatchCount(last.stage))

C5_Witness ==
    /\ last.op = "hook" /\ last.pass /= 0
    /\ LastHook.save_tex /= NullStr
    /\ LastCond.ok /\ LastCond.val.n = 0
    /\ last.ret = PL_HOOK_STATUS_AGAIN

\* C6: hook_hook returns -1 whenever the condition, the width or the height
\* fails to evaluate, the compute request or the size request is refused, or
\* binding a texture fails (the collaborators only refuse a texture the call
\* binds): no failure ends in a non-negative status.
C6_FailuresReturnMinusOne ==
    last.op = "hook" /\ last.pass /= 0 =>
        /\ ~LastCond.ok => last.ret = -1
        /\ LastCond.ok /\ LastCond.val.n /= 0 =>
             /\ LastHook.is_compute /\ ~last.env.compute_ok => last.ret = -1
             /\ ~pl_eval_szexpr(LastScope, LastHook.width).ok => last.ret = -1
             /\ ~pl_eval_szexpr(LastScope, LastHook.height).ok => last.ret = -1
             /\ ~last.env.require_ok => last.ret = -1
             /\ last.env.bad /= {} => last.ret = -1
        /\ last.failure /= "" => last.ret = -1

C6_Witness ==
    /\ last.op = "hook" /\ last.pass /= 0 /\ last.ret = -1
    /\ last.failure = "bind" /\ last.env.bad /= {} /\ Len(last.binds) > 0

\* C7: hook_hook appends the hooked texture under the canonical name of the
\* stage exactly when count is 0 and the stage is in save_stages, whatever
\* becomes of the pass; a call with another count or stage stores nothing.
C7_EntrySave ==
    [][ last'.op = "hook" =>
          IF last'.count = 0 /\ last'.stage \in priv.save_stages
            THEN /\ priv'.num_pass_textures = priv.num_pass_textures + 1
                 /\ priv'.pass_textures[priv'.num_pass_textures]
                      = [name |-> pl_stage_to_mp(last'.stage), tex |-> last'.tex]
                 /\ \A k \in 1..priv.num_pass_textures :
                      priv'.pass_textures[k] = priv.pass_textures[k]
            ELSE /\ priv'.num_pass_textures = priv.num_pass_textures
                 /\ priv'.pass_textures = priv.pass_textures ]_vars

C7_Witness ==
    /\ last.op = "hook" /\ last.count = 0 /\ last.pass = 0
    /\ last.stage \in priv.save_stages
    /\ priv.num_pass_textures >= 1
    /\ priv.pass_textures[priv.num_pass_textures]
         = [name |-> pl_stage_to_mp(last.stage), tex |-> last.tex]

\* C8: when a pass is emitted, every bind_tex name other than HOOKED, at
\* any position, is bound to the LUT of that name if one is registered at
\* any position, and otherwise to a stored pass-texture of that name if one
\* is stored at any position.
C8_BindsAtAnyPosition ==
    last.op = "hook" /\ last.emitted =>
        LET stored == SubSeq(priv.pass_textures, 1, priv.num_pass_textures)
            luts == priv.lut_textures
        IN  \A i \in 1..Len(LastHook.bind_tex) :
              LET name == LastHook.bind_tex[i] IN
              name /= NullStr /\ name /= "" /\ name /= "HOOKED" =>
                IF \E j \in 1..Len(luts) : luts[j].name = name
                  THEN \E j \in 1..Len(luts), k \in 1..Len(last.binds) :
                         /\ luts[j].name = name
                         /\ last.binds[k] = Bound(name, "lut", luts[j].tex)
                  ELSE (\E j \in 1..Len(stored) : stored[j].name = name) =>
                       \E j \in 1..Len(stored), k \in 1..Len(last.binds) :
                         /\ stored[j].name = name
                         /\ last.binds[k] = Bound(name, "hook", stored[j].tex)

\* C9: when a section fails to parse, pl_parse_mpv_user_shader returns NULL
\* with everything built so far released: every texture created for an
\* earlier TEXTURE section has been destroyed.
C9_ParseFailureReleasesAll ==
    phase = "null" => priv = PrivInit /\ gpu.live = {}

\* C10: the LUT textures of a hook object stay live through every call of
\* hook, save and reset; pl_destroy_mpv_user_shader destroys each of them
\* exactly once; on the NULL of a failed parse it destroys nothing.
C10_LutLifetime ==
    /\ phase = "live" =>
         /\ \A i \in 1..Len(priv.lut_textures) : priv.lut_textures[i].tex \in gpu.live
         /\ gpu.destroyed = << >>
    /\ phase = "destroyed" =>
         /\ gpu.live = {}
         /\ Len(gpu.destroyed) = gpu.created
         /\ \A k \in 1..gpu.created :
              Cardinality({ i \in 1..Len(gpu.destroyed) : gpu.destroyed[i] = LutTex(k) }) = 1
    /\ phase = "null" => gpu.destroyed = << >>

C10_Witness ==
    /\ phase = "destroyed" /\ gpu.created = 2
    /\ gpu.destroyed = << LutTex(1), LutTex(2) >>

\* ------------------------------------------------------ TEXTURE sections
\* Documents of one TEXTURE section: a SIZE directive (or none), a format,
\* and a body of n bytes, for every n up to MaxTexBytes.
MaxTexBytes == 17

HexBody(n) == [i \in 1..(2 * n) |-> HexDigits[((i * 7) % 16) + 1]]

TexSizes == { << >>, << 1 >>, << 3 >>, << 4 >>, << 2, 1 >>, << 2, 2 >>, << 1, 2, 2 >>, << 2, 2, 2 >> }

TexFormats == { "r8", "rg8" }

TexSection(size, fmt, n) ==
    Section(<< DName("TEXTURE", "L1") >>
              \o (IF size = << >> THEN << >> ELSE << DInts("SIZE", size) >>)
              \o << DName("FORMAT", fmt) >>,
            HexBody(n))

TexDocs == { << TexSection(size, fmt, n) >> : size \in TexSizes, fmt \in TexFormats, n \in 0..MaxTexBytes }

InitTex ==
    /\ phase = "parsing"
    /\ doc \in TexDocs
    /\ priv = PrivInit
    /\ stages = {}
    /\ gpu = GpuInit
    /\ last = NoCall

NextTex ==
    \/ ParseTexSection
    \/ ParseFinish

SpecTex == InitTex /\ [][NextTex]_vars

\* C11: the texture of a TEXTURE section that parses is created with the
\* hex-decoded bytes of the section body as its initial contents.
C11_CreatedWithPayload ==
    [][ gpu'.created = gpu.created + 1 =>
          gpu'.made[gpu'.created].initial_data = bstr_decode_hex(Head(doc).body).bytes ]_vars

\* What a TEXTURE section declares, read off its directives: the product of
\* the dimensions of its last SIZE directive (1 without one) and the texel
\* size of the format its last FORMAT directive names.
LastDir(hdr, kw) ==
    LET ks == { k \in 1..Len(hdr) : hdr[k].kw = kw }
    IN  IF ks = {} THEN << >> ELSE << hdr[CHOOSE k \in ks : \A j \in ks : j <= k] >>

DeclaredTexels(sec) ==
    LET sz == LastDir(sec.hdr, "SIZE")
        ints == IF sz = << >> THEN << >> ELSE sz[1].ints
    IN  (IF Len(ints) >= 1 THEN ints[1] ELSE 1)
          * (IF Len(ints) >= 2 THEN ints[2] ELSE 1)
          * (IF Len(ints) >= 3 THEN ints[3] ELSE 1)

DeclaredTexelSize(sec) ==
    LET f == LastDir(sec.hdr, "FORMAT")
        hits == { n \in 1..Len(GpuFormats) : f /= << >> /\ GpuFormats[n].name = f[1].name }
    IN  IF hits = {} THEN 0 ELSE GpuFormats[CHOOSE n \in hits : TRUE].texel_size

\* C12: a TEXTURE section creates its texture only if the decoded body has
\* exactly (product of the declared dimensions, 1 for each undeclared one)
\* times the texel size bytes; with any other length the parse fails and no
\* texture is created.
C12_BodyLengthExact ==
    [][ phase = "parsing" /\ doc /= << >> /\ Head(doc).hdr[1].kw = "TEXTURE" =>
          \E sec \in { Head(doc) } :
            \E expected \in { DeclaredTexels(sec) * DeclaredTexelSize(sec) } :
              /\ gpu'.created = gpu.created + 1 =>
                   Len(bstr_decode_hex(sec.body).bytes) = expected
              /\ Len(bstr_decode_hex(sec.body).bytes) /= expected =>
                   phase' = "null" /\ gpu' = gpu ]_vars

C12_Witness ==
    /\ phase = "live" /\ gpu.created = 1
    /\ gpu.made[1].w = 2 /\ gpu.made[1].h = 2 /\ gpu.made[1].d = 2
    /\ gpu.made[1].format.name = "rg8"

\* ------------------------------------------------ capacities of a hook section
\* Documents of one hook section: some HOOK and BIND directives, up to
\* MaxHookDirs of each, and one or two lines of the same size-expression
\* directive, of up to MaxWords legal words each.
MaxHookDirs == 17
MaxWords == 33

DirCounts == { 0, 1, SHADER_MAX_HOOKS - 1 } \cup (SHADER_MAX_HOOKS..MaxHookDirs)

WordCounts ==
    { << >>, << 1 >>, << 3 >>, << 3, 1 >>, << 32, 3 >>, << 3, 32 >> }
      \cup { << t >> : t \in (MAX_SZEXP_SIZE - 1)..MaxWords }

\* A line of t legal words: 1, then "1 +" as long as two more words fit,
\* then a last 1.
RpnLine(t) ==
    [i \in 1..t |-> IF i = 1 \/ (i % 2 = 0) THEN WNum(1) ELSE WOp("+")]

HookSection(nh, nb, kw, ts) ==
    Section(<< DName("DESC", "p") >>
              \o [i \in 1..Len(ts) |-> DWords(kw, RpnLine(ts[i]))]
              \o [i \in 1..nh |-> DName("HOOK", "RGB")]
              \o [i \in 1..nb |-> DName("BIND", "HOOKED")],
            BodyText)

HookDocs ==
    { << HookSection(nh, nb, kw, ts) >> :
        nh \in DirCounts, nb \in DirCounts, kw \in { "WIDTH", "HEIGHT", "WHEN" }, ts \in WordCounts }

InitHook ==
    /\ phase = "parsing"
    /\ doc \in HookDocs
    /\ priv = PrivInit
    /\ stages = {}
    /\ gpu = GpuInit
    /\ last = NoCall

NextHook ==
    \/ ParseHookSection
    \/ ParseFinish

SpecHook == InitHook /\ [][NextHook]_vars

CountDir(hdr, kw) == Cardinality({ k \in 1..Len(hdr) : hdr[k].kw = kw })

RpnDirs(hdr) == { k \in 1..Len(hdr) : hdr[k].kw \in { "WIDTH", "HEIGHT", "WHEN" } }

\* C13: a size-expression line of more than 32 words fails and one of up
\* to 32 legal words succeeds; a section with a 17th HOOK or a 17th BIND
\* fails and one with up to 16 of each succeeds; no token is written past
\* slot 31 and no name past slot 15, whether the section is accepted or not.
C13_CapacitiesEnforced ==
    [][ phase = "parsing" /\ doc /= << >> /\ Head(doc).hdr[1].kw /= "TEXTURE" =>
          \E sec \in { Head(doc) } :
            \E r \in { parse_hook(sec) } :
              /\ \A k \in RpnDirs(sec.hdr) :
                   parse_rpn_szexpr(sec.hdr[k].words, << >>).ok <=> (Len(sec.hdr[k].words) <= 32)
              /\ (phase' = "parsing")
                   <=> /\ CountDir(sec.hdr, "HOOK") <= 16
                       /\ CountDir(sec.hdr, "BIND") <= 16
                       /\ \A k \in RpnDirs(sec.hdr) : Len(sec.hdr[k].words) <= 32
              /\ Len(r.hook.hook_tex) <= 16 /\ Len(r.hook.bind_tex) <= 16
              /\ Len(r.hook.width) <= 32 /\ Len(r.hook.height) <= 32
              /\ Len(r.hook.cond) <= 32 ]_vars

C13_Witness ==
    /\ phase = "live" /\ Len(priv.hook_passes) = 1
    /\ Len(priv.hook_passes[1].hook.hook_tex) = 16
    /\ Len(priv.hook_passes[1].hook.bind_tex) = 16
    /\ Len(priv.hook_passes[1].hook.cond) = 32

\* Whether a program holds an END token in one of its 32 slots.
HasEnd(prog) == \E i \in 1..32 : Slot(prog, i).tag = "END"

\* C14: in every hook record of a section that parses, width, height and
\* cond each hold an END token at an index below 32.
C14_ProgramsTerminated ==
    \A i \in 1..Len(priv.hook_passes) :
       /\ HasEnd(priv.hook_passes[i].hook.width)
       /\ HasEnd(priv.hook_passes[i].hook.height)
       /\ HasEnd(priv.hook_passes[i].hook.cond)

\* --------------------------------------------------- evaluating programs
\* In the specifications of a single function, doc holds the argument and
\* last the result; phase tells whether the function was applied.
\* Programs of up to MaxProgLen tokens over constants -1..MaxConst, known
\* and unknown variables, every operator and END, and two programs that
\* fill 31 and all 32 slots.
MaxConst == 3
MaxProgLen == 3

EvalToks ==
    { TConst(k) : k \in (-1)..MaxConst }
      \cup { TVarW("HOOKED"), TVarH("T1"), TVarW("T9"), TOp1("NOT"), SZEXP_END }
      \cup { TOp2(op) : op \in { "ADD", "SUB", "MUL", "DIV", "GT", "LT" } }

LongProg(t) ==
    [i \in 1..t |-> IF i = 1 THEN TConst(1)
                    ELSE IF i = 2 THEN TOp1("NOT")
                    ELSE IF i % 2 = 1 THEN TConst(1) ELSE TOp2("ADD")]

\* t tokens that all push: constants and the width of HOOKED in turn.
PushProg(t) == [i \in 1..t |-> IF i % 2 = 1 THEN TConst(1) ELSE TVarW("HOOKED")]

EvalProgs ==
    UNION { [1..n -> EvalToks] : n \in 0..MaxProgLen }
      \cup { LongProg(MAX_SZEXP_SIZE - 1), LongProg(MAX_SZEXP_SIZE),
             PushProg(MAX_SZEXP_SIZE - 1), PushProg(MAX_SZEXP_SIZE) }

\* The scope of the evaluation: T1 is stored, T9 is not.
EvalScope ==
    Scope(<< [name |-> "T1", tex |-> FrameTex(3)] >>, 1,
          [tex |-> FrameTex(1), src_rect |-> [w |-> 8, h |-> 4], dst_rect |-> [w |-> 16, h |-> 10]])

InitEval ==
    /\ phase = "expr"
    /\ doc \in EvalProgs
    /\ priv = PrivInit
    /\ stages = {}
    /\ gpu = GpuInit
    /\ last = NoCall

Eval ==
    /\ phase = "expr"
    /\ phase' = "value"
    /\ last' = pl_eval_szexpr(EvalScope, doc)
    /\ UNCHANGED << doc, priv, stages, gpu >>

NextEval == Eval

SpecEval == InitEval /\ [][NextEval]_vars

\* The tokens of a program that are executed when nothing fails: those
\* before the first END, all of them if there is none.
ProgLen(prog) ==
    LET ends == { i \in 1..Len(prog) : prog[i].tag = "END" }
    IN  IF ends = {} THEN Len(prog) ELSE (CHOOSE i \in ends : \A j \in ends : i <= j) - 1

\* The stack depth after k tokens, by the arity of the tokens alone.
DepthAt(prog, k) ==
    Cardinality({ j \in 1..k : prog[j].tag \in { "CONST", "VAR_W", "VAR_H" } })
      - Cardinality({ j \in 1..k : prog[j].tag = "OP2" })

Underflows(prog) ==
    \E k \in 1..ProgLen(prog) :
       \/ prog[k].tag = "OP2" /\ DepthAt(prog, k - 1) < 2
       \/ prog[k].tag = "OP1" /\ DepthAt(prog, k - 1) < 1

MissingVar(prog) ==
    \E k \in 1..ProgLen(prog) :
       /\ prog[k].tag \in { "VAR_W", "VAR_H" }
       /\ prog[k].varname \notin { "HOOKED", "NATIVE_CROPPED", "OUTPUT", "T1" }

\* C15: pl_eval_szexpr succeeds exactly when no operator underflows, no
\* variable is missing, no dyadic result is non-finite and the stack depth
\* at END (or after slot 32) is 1; the result is then the value left, and a
\* program leaving depth 0 or depth 2 and more fails.
C15_EvalSucceedsIff ==
    phase = "value" =>
        /\ last.ok <=> /\ ~Underflows(doc)
                       /\ ~MissingVar(doc)
                       /\ last.why /= "nonfinite"
                       /\ DepthAt(doc, ProgLen(doc)) = 1
        /\ ~Underflows(doc) /\ ~MissingVar(doc) /\ DepthAt(doc, ProgLen(doc)) /= 1
             => ~last.ok
        /\ ProgLen(doc) = 1 /\ doc[1].tag = "CONST" => last.ok /\ last.val = doc[1].cval
        /\ ProgLen(doc) = 1 /\ doc[1] = TVarH("T1") => last.ok /\ last.val = F(TexSize(FrameTex(3)).h)

C15_Witness ==
    /\ phase = "value" /\ Len(doc) = 32 /\ ProgLen(doc) = 32
    /\ last.ok /\ last.val = F(15)

\* C16: for integer constants a and b the program [a, b, op] gives a op b
\* with a as the left operand: the sum, difference, product and quotient,
\* 1 or 0 for > and <; [a, 0, /] fails; [a, !] gives 1 exactly when a = 0.
C16_OperandOrder ==
    phase = "value" =>
        /\ Len(doc) = 3 /\ doc[1].tag = "CONST" /\ doc[2].tag = "CONST" /\ doc[3].tag = "OP2" =>
             \E a \in { doc[1].cval.n }, b \in { doc[2].cval.n }, op \in { doc[3].op } :
                /\ op = "ADD" => last.ok /\ last.val = F(a + b)
                /\ op = "SUB" => last.ok /\ last.val = F(a - b)
                /\ op = "MUL" => last.ok /\ last.val = F(a * b)
                /\ op = "DIV" /\ b = 0 => ~last.ok
                /\ op = "DIV" /\ b /= 0 =>
                     last.ok /\ last.val.d /= 0 /\ last.val.n * b = a * last.val.d
                /\ op = "GT" => last.ok /\ last.val = F(IF a > b THEN 1 ELSE 0)
                /\ op = "LT" => last.ok /\ last.val = F(IF a < b THEN 1 ELSE 0)
        /\ Len(doc) = 2 /\ doc[1].tag = "CONST" /\ doc[2].tag = "OP1" =>
             last.ok /\ last.val = F(IF doc[1].cval.n = 0 THEN 1 ELSE 0)

C16_Witness ==
    /\ phase = "value"
    /\ doc = << TConst(3), TConst(2), TOp2("DIV") >>
    /\ last.ok /\ last.val = [n |-> 3, d |-> 2]

\* --------------------------------------------------------- naming stages
\* The names given to mp_stage_to_pl: the 16 of the comparison chain, the
\* empty name, the default of pl_stage_to_mp, names in another case or
\* with a blank, and the names bound by lookup_tex that are not stages.
StageArgNames ==
    { StageTable[i][1] : i \in 1..Len(StageTable) }
      \cup { "", "UNKNOWN", "rgb", "RGB ", "MAINPRESUB2", "HOOKED", "NATIVE_CROPPED", "T1" }

InitStages ==
    /\ phase = "names"
    /\ doc \in [name : StageArgNames, stage : AllStages]
    /\ priv = PrivInit
    /\ stages = {}
    /\ gpu = GpuInit
    /\ last = NoCall

\* Both mappings applied to the arguments, and each applied to the result
\* of the other.
MapStages ==
    /\ phase = "names"
    /\ phase' = "mapped"
    /\ last' = [pl |-> mp_stage_to_pl(doc.name),
                mp |-> pl_stage_to_mp(doc.stage),
                back_mp |-> { pl_stage_to_mp(s) : s \in mp_stage_to_pl(doc.name) },
                back_pl |-> mp_stage_to_pl(pl_stage_to_mp(doc.stage))]
    /\ UNCHANGED << doc, priv, stages, gpu >>

NextStages == MapStages

SpecStages == InitStages /\ [][NextStages]_vars

UsfNames ==
    { "RGB", "LUMA", "CHROMA", "ALPHA", "XYZ", "CHROMA_SCALED", "ALPHA_SCALED",
      "NATIVE", "MAINPRESUB", "MAIN", "LINEAR", "SIGMOID", "PREKERNEL",
      "POSTKERNEL", "SCALED", "OUTPUT" }

\* C17: the 16 stage names map to 16 distinct single stages and back to
\* themselves, each of the 16 stages maps to a name and back to itself,
\* MAINPRESUB goes with RGB and MAIN with RGB_OVERLAY, and any other name,
\* the empty one included, maps to the zero bitset.
C17_StageNamesBijective ==
    phase = "mapped" =>
        /\ Cardinality(UsfNames) = 16 /\ Cardinality(AllStages) = 16
        /\ doc.name \in UsfNames =>
             /\ Cardinality(last.pl) = 1 /\ last.pl \subseteq AllStages
             /\ last.back_mp = { doc.name }
        /\ doc.name \notin UsfNames => last.pl = {}
        /\ last.mp \in UsfNames /\ last.back_pl = { doc.stage }
        /\ doc.name = "MAINPRESUB" <=> last.pl = { "PL_HOOK_RGB" }
        /\ doc.name = "MAIN" <=> last.pl = { "PL_HOOK_RGB_OVERLAY" }
        /\ doc.stage = "PL_HOOK_RGB" <=> last.mp = "MAINPRESUB"
        /\ doc.stage = "PL_HOOK_RGB_OVERLAY" <=> last.mp = "MAIN"
        /\ Cardinality({ mp_stage_to_pl(n) : n \in UsfNames }) = 16
        /\ { pl_stage_to_mp(s) : s \in AllStages } = UsfNames

C17_Witness ==
    /\ phase = "mapped"
    /\ doc.name = "MAIN" /\ doc.stage = "PL_HOOK_RGB"
    /\ last.pl = { "PL_HOOK_RGB_OVERLAY" } /\ last.mp = "MAINPRESUB"

\* ------------------------------------------------- the stages of a shader
\* The stages named by the entries of a name array.
NameStages(names) ==
    { s \in AllStages : \E i \in 1..Len(names), r \in 1..Len(StageTable) :
                           StageTable[r] = << names[i], s >> }

BindsName(hook, name) == \E i \in 1..Len(hook.bind_tex) : hook.bind_tex[i] = name

\* C18: once the text is parsed, the exec_stages of a pass are the stages
\* its HOOK names map to, save_stages are the stages the BIND names of all
\* passes map to together with the exec_stages of the passes binding
\* HOOKED, and the stages of the hook object contain save_stages and the
\* exec_stages of every pass.
C18_StagesCoverSaves ==
    phase = "live" =>
        /\ \A i \in 1..Len(priv.hook_passes) :
              priv.hook_passes[i].exec_stages = NameStages(priv.hook_passes[i].hook.hook_tex)
        /\ priv.save_stages =
              UNION { NameStages(priv.hook_passes[i].hook.bind_tex)
                        \cup (IF BindsName(priv.hook_passes[i].hook, "HOOKED")
                                THEN NameStages(priv.hook_passes[i].hook.hook_tex) ELSE {})
                      : i \in 1..Len(priv.hook_passes) }
        /\ priv.save_stages \subseteq stages
        /\ \A i \in 1..Len(priv.hook_passes) : priv.hook_passes[i].exec_stages \subseteq stages

C18_Witness ==
    /\ phase = "live"
    /\ \E i \in 1..Len(priv.hook_passes) :
          /\ BindsName(priv.hook_passes[i].hook, "HOOKED")
          /\ priv.hook_passes[i].exec_stages = { "PL_HOOK_RGB_INPUT" }
    /\ \E i \in 1..Len(priv.hook_passes) :
          /\ BindsName(priv.hook_passes[i].hook, "RGB")
          /\ priv.hook_passes[i].exec_stages = { "PL_HOOK_LUMA_INPUT" }
    /\ priv.save_stages = { "PL_HOOK_RGB_INPUT" }
    /\ stages = { "PL_HOOK_RGB_INPUT", "PL_HOOK_LUMA_INPUT" }

\* ------------------------------------------------- the random generator
\* The generator on its own: every executed pass of hook_hook counts the
\* frame and steps the generator once, and hook_reset may come in between.
MaxPrngSteps == 150

InitPrng ==
    /\ phase = "live"
    /\ doc = << >>
    /\ priv = PrivInit
    /\ stages = {}
    /\ gpu = GpuInit
    /\ last = NoCall

PassRuns ==
    /\ phase = "live"
    /\ priv.frame_count < MaxPrngSteps
    /\ priv' = [priv EXCEPT !.frame_count = @ + 1, !.prng_state = prng_step(@)]
    /\ last' = [NoCall EXCEPT !.op = "hook"]
    /\ UNCHANGED << phase, doc, stages, gpu >>

NextPrng == PassRuns \/ HookReset

SpecPrng == InitPrng /\ [][NextPrng]_vars

\* C19: the four words of the generator are never all zero, neither after
\* construction nor after any number of steps and resets; every word stays
\* within 64 bits.
C19_PrngNeverZero ==
    /\ priv.prng_state /= << {}, {}, {}, {} >>
    /\ \A i \in 1..4 : priv.prng_state[i] \subseteq 0..63

C19_Witness ==
    /\ priv.frame_count = MaxPrngSteps
    /\ last.op = "reset"
    /\ priv.prng_state /= PrngSeed
    /\ \E i \in 1..4 : priv.prng_state[i] /= {}

\* ------------------------------------------------ sections without HOOK
\* The passes registered from a section that has a HOOK directive.
Hooking(hook_passes) ==
    { i \in 1..Len(hook_passes) : Len(hook_passes[i].hook.hook_tex) > 0 }

\* C20: a section without HOOK parses and its pass is inert: hook_hook never
\* selects it and never counts it at any stage, and the stages of the hook
\* object and save_stages are those the sections with a HOOK give.
C20_NoHookInert ==
    phase = "live" =>
        /\ last.op = "hook" /\ last.pass /= 0 => last.pass \in Hooking(priv.hook_passes)
        /\ last.op = "hook" =>
             last.total_count
               = Cardinality({ i \in Hooking(priv.hook_passes) :
                                 last.stage \in priv.hook_passes[i].exec_stages })
        /\ priv.save_stages =
             UNION { register_hook(priv.hook_passes[i].hook).save_stages
                     : i \in Hooking(priv.hook_passes) }
        /\ stages =
             UNION { register_hook(priv.hook_passes[i].hook).save_stages
                       \cup priv.hook_passes[i].exec_stages
                     : i \in Hooking(priv.hook_passes) }

\* -------------------------------------------------- frames and randomness
\* C21: a call of hook_hook that emits a pass body counts the frame once
\* and steps the generator once; a call that fails, finds no pass or skips
\* on a zero condition emits nothing, and it, hook_save, hook_reset and
\* every other operation on the object leave frame_count and the generator
\* unchanged; frame_count is 0 until the first call.
C21_FrameCountsBodies ==
    [][ /\ last'.op = "hook" /\ last'.emitted =>
             /\ priv'.frame_count = priv.frame_count + 1
             /\ priv'.prng_state = prng_step(priv.prng_state)
             /\ priv'.prng_state /= priv.prng_state
        /\ phase' \in { "parsing", "live" } /\ ~(last'.op = "hook" /\ last'.emitted) =>
             /\ priv'.frame_count = priv.frame_count
             /\ priv'.prng_state = priv.prng_state
        /\ last'.op = "hook" /\ last'.ret = -1 => ~last'.emitted
        /\ last'.op = "hook" /\ last'.pass = 0 => ~last'.emitted
        /\ last.op = "hook" /\ last.pass /= 0 /\ LastCond.ok /\ LastCond.val.n = 0
             => ~last.emitted
        /\ phase = "parsing" => priv.frame_count = 0 /\ priv.prng_state = PrngSeed ]_vars

C21_Witness ==
    /\ last.op = "save"
    /\ priv.frame_count = 2
    /\ priv.prng_state = prng_step(prng_step(PrngSeed))

\* ------------------------------------------------------- looking up names
\* The pass-texture array of a hook object: up to MaxStored entries, of
\* which the first num are stored since the last reset (the others are left
\* from before it), and one LUT texture named L1.
MaxStored == 2

StoredNames == { "T1", "HOOKED", "OUTPUT", "L1" }
LookupNames == StoredNames \cup { "NATIVE_CROPPED", "T9", "" }

StoredEntries == [name : StoredNames, tex : { FrameTex(3), FrameTex(4) }]

LookupParams ==
    [stage |-> "PL_HOOK_RGB_INPUT", count |-> 0, tex |-> FrameTex(1),
     src_rect |-> [w |-> 8, h |-> 4], dst_rect |-> [w |-> 16, h |-> 10]]

InitLookup ==
    /\ phase = "names"
    /\ doc \in LookupNames
    /\ \E n \in 0..MaxStored : \E arr \in [1..n -> StoredEntries] : \E num \in 0..n :
          priv = [PrivInit EXCEPT !.pass_textures = arr, !.num_pass_textures = num,
                                  !.lut_textures = << [name |-> "L1", tex |-> LutTex(1)] >>]
    /\ stages = {}
    /\ gpu = GpuInit
    /\ last = NoCall

\* The programs NAME.w and NAME.h evaluated in the scope of a call.
Lookup ==
    /\ phase = "names"
    /\ phase' = "looked"
    /\ \E scope \in { Scope(priv.pass_textures, priv.num_pass_textures, LookupParams) } :
          last' = [w |-> pl_eval_szexpr(scope, ProgInit(<< TVarW(doc) >>)),
                   h |-> pl_eval_szexpr(scope, ProgInit(<< TVarH(doc) >>))]
    /\ UNCHANGED << doc, priv, stages, gpu >>

NextLookup == Lookup

SpecLookup == InitLookup /\ [][NextLookup]_vars

\* The slots stored since the last reset that hold the name looked up.
StoredAs(name) ==
    { i \in 1..priv.num_pass_textures : priv.pass_textures[i].name = name }

Resolves(w, h) ==
    /\ last.w.ok /\ last.w.val = F(w)
    /\ last.h.ok /\ last.h.val = F(h)

\* C22: HOOKED, NATIVE_CROPPED and OUTPUT resolve to the size of the hooked
\* texture, of src_rect and of dst_rect whatever is stored; another name
\* resolves to the size of the earliest pass-texture of that name stored
\* since the last reset; a name stored only before the reset, the name of a
\* LUT texture and an unknown name are missing and the evaluation fails.
C22_LookupOrder ==
    phase = "looked" =>
        /\ doc = "HOOKED" => Resolves(4, 2)
        /\ doc = "NATIVE_CROPPED" => Resolves(8, 4)
        /\ doc = "OUTPUT" => Resolves(16, 10)
        /\ doc \notin { "HOOKED", "NATIVE_CROPPED", "OUTPUT" } /\ StoredAs(doc) /= {} =>
             \E i \in StoredAs(doc) :
                /\ \A j \in StoredAs(doc) : i <= j
                /\ priv.pass_textures[i].tex = FrameTex(3) => Resolves(3, 3)
                /\ priv.pass_textures[i].tex = FrameTex(4) => Resolves(6, 4)
        /\ doc \notin { "HOOKED", "NATIVE_CROPPED", "OUTPUT" } /\ StoredAs(doc) = {} =>
             /\ ~last.w.ok /\ last.w.why = "missing"
             /\ ~last.h.ok /\ last.h.why = "missing"

C22_Witness ==
    /\ phase = "looked" /\ doc = "T1"
    /\ priv.num_pass_textures = 2
    /\ priv.pass_textures[1] = [name |-> "T1", tex |-> FrameTex(4)]
    /\ priv.pass_textures[2] = [name |-> "T1", tex |-> FrameTex(3)]
    /\ Resolves(6, 4)

\* ------------------------------------------------ sections in their order
\* The names a section gives with the directive kw, in order.
RECURSIVE DirNames(_, _, _)
DirNames(hdr, kw, i) ==
    IF i > Len(hdr) THEN << >>
    ELSE (IF hdr[i].kw = kw THEN << hdr[i].name >> ELSE << >>) \o DirNames(hdr, kw, i + 1)

IsTexSection(sec) == sec.hdr[1].kw = "TEXTURE"

\* The sections of d before position i that are (or are not) TEXTURE sections.
CountBefore(d, i, tex) == Cardinality({ j \in 1..i : IsTexSection(d[j]) = tex })

\* d is the document being parsed: the sections not consumed are its end,
\* and each section before them is registered once, at the position its
\* rank among the sections of its type gives.
RegisteredFrom(d) ==
    \E n \in { Len(d) - Len(doc) } :
       /\ n >= 0 /\ doc = SubSeq(d, n + 1, Len(d))
       /\ Len(priv.hook_passes) + Len(priv.lut_textures) = n
       /\ Len(priv.lut_textures) = CountBefore(d, n, TRUE)
       /\ \A i \in 1..n :
            IF IsTexSection(d[i])
              THEN priv.lut_textures[CountBefore(d, i, TRUE)].name = d[i].hdr[1].name
              ELSE \E h \in { priv.hook_passes[CountBefore(d, i, FALSE)].hook } :
                      /\ h.hook_tex = DirNames(d[i].hdr, "HOOK", 1)
                      /\ h.bind_tex = DirNames(d[i].hdr, "BIND", 1)
                      /\ h.pass_body = d[i].body

IsSpace(c) == c \in { " ", "\n", "\t", "\r" }

\* bstr_strip: without the white space at both ends.
bstr_strip(str) ==
    CHOOSE out \in { IF idx = {} THEN << >>
                     ELSE SubSeq(str, CHOOSE i \in idx : \A j \in idx : i <= j,
                                      CHOOSE i \in idx : \A j \in idx : i >= j) :
                     idx \in { { i \in 1..Len(str) : ~IsSpace(str[i]) } } } : TRUE

\* bstr_find: the offset of the first occurrence of tok, -1 if there is none.
bstr_find(str, tok) ==
    CHOOSE out \in { IF hits = {} THEN -1 ELSE CHOOSE i \in hits : \A j \in hits : i <= j :
                     hits \in { { i \in 0..(Len(str) - Len(tok)) :
                                    SubSeq(str, i + 1, i + Len(tok)) = tok } } } : TRUE

\* bstr_cut: without the first n bytes (all of them if n is beyond the end).
bstr_cut(str, n) == SubSeq(str, (IF n > Len(str) THEN Len(str) ELSE n) + 1, Len(str))

\* bstr_getline: the first line with its newline, and what follows it.
bstr_getline(str) ==
    CHOOSE out \in { IF nl = {} THEN [line |-> str, rest |-> << >>]
                     ELSE LET k == CHOOSE i \in nl : \A j \in nl : i <= j
                          IN  [line |-> SubSeq(str, 1, k), rest |-> SubSeq(str, k + 1, Len(str))] :
                     nl \in { { i \in 1..Len(str) : str[i] = "\n" } } } : TRUE

\* The characters of the string literals and names of the texts below (bstr0).
Spelling ==
    << << "//!", << "/", "/", "!" >> >>,
       << "//!TEXTURE", << "/", "/", "!", "T", "E", "X", "T", "U", "R", "E" >> >>,
       << "HOOK", << "H", "O", "O", "K" >> >>,
       << "BIND", << "B", "I", "N", "D" >> >>,
       << "SAVE", << "S", "A", "V", "E" >> >>,
       << "DESC", << "D", "E", "S", "C" >> >>,
       << "TEXTURE", << "T", "E", "X", "T", "U", "R", "E" >> >>,
       << "FORMAT ", << "F", "O", "R", "M", "A", "T", " " >> >>,
       << "RGB", << "R", "G", "B" >> >>,
       << "HOOKED", << "H", "O", "O", "K", "E", "D" >> >>,
       << "T1", << "T", "1" >> >>,
       << "L1", << "L", "1" >> >>,
       << "r8", << "r", "8" >> >>,
       << "p", << "p" >> >> >>

SpellingOf ==
    [lit \in { Spelling[i][1] : i \in 1..Len(Spelling) } |->
        (CHOOSE r \in { Spelling[i] : i \in 1..Len(Spelling) } : r[1] = lit)[2]]

bstr0(lit) == SpellingOf[lit]

\* The name a sequence of characters spells; "?" for one not listed.
NameOf(str) ==
    LET rows == { i \in 1..Len(Spelling) : Spelling[i][2] = str }
    IN  IF str = << >> THEN ""
        ELSE IF rows = {} THEN "?" ELSE Spelling[CHOOSE i \in rows : TRUE][1]

bstr_startswith0(str, lit) ==
    Len(str) >= Len(bstr0(lit)) /\ SubSeq(str, 1, Len(bstr0(lit))) = bstr0(lit)

\* bstr_eatstart0: whether str starts with lit, and str without it if so.
bstr_eatstart0(str, lit) ==
    IF bstr_startswith0(str, lit)
      THEN [ok |-> TRUE, rest |-> SubSeq(str, Len(bstr0(lit)) + 1, Len(str))]
      ELSE [ok |-> FALSE, rest |-> str]

\* bstr_split_tok: str around the first occurrence of tok; without one, left
\* is the whole of str and right is empty.
bstr_split_tok(str, lit) ==
    CHOOSE out \in { [found |-> pos /= Len(str), left |-> SubSeq(str, 1, pos),
                      right |-> bstr_cut(str, pos + Len(bstr0(lit)))] :
                     pos \in { IF bstr_find(str, bstr0(lit)) < 0 THEN Len(str)
                               ELSE bstr_find(str, bstr0(lit)) } } : TRUE

\* The header loop of parse_hook and of parse_tex: lines are taken while the
\* stripped line starts with //!; lines holds each header without the
\* prefix, body what follows the last header line.  (Each turn takes its
\* line once, as a value: gl ranges over the one result of bstr_getline.)
RECURSIVE HeaderLoop(_, _)
HeaderLoop(body, lines) ==
    CHOOSE out \in { LET line == bstr_eatstart0(bstr_strip(gl.line), "//!")
                     IN  IF ~line.ok THEN [lines |-> lines, body |-> body]
                         ELSE HeaderLoop(gl.rest, Append(lines, line.rest)) :
                     gl \in { bstr_getline(body) } } : TRUE

\* The commands of parse_hook that take a name, in the order they are tried
\* (the texts below hold no other command of parse_hook).
HookDirective(line) ==
    IF bstr_eatstart0(line, "HOOK").ok
      THEN DName("HOOK", NameOf(bstr_strip(bstr_eatstart0(line, "HOOK").rest)))
    ELSE IF bstr_eatstart0(line, "BIND").ok
      THEN DName("BIND", NameOf(bstr_strip(bstr_eatstart0(line, "BIND").rest)))
    ELSE IF bstr_eatstart0(line, "SAVE").ok
      THEN DName("SAVE", NameOf(bstr_strip(bstr_eatstart0(line, "SAVE").rest)))
    ELSE IF bstr_eatstart0(line, "DESC").ok
      THEN DName("DESC", NameOf(bstr_strip(bstr_eatstart0(line, "DESC").rest)))
    ELSE DName("?", "")

\* The commands TEXTURE and FORMAT of parse_tex.
TexDirective(line) ==
    IF bstr_eatstart0(line, "TEXTURE").ok
      THEN DName("TEXTURE", NameOf(bstr_strip(bstr_eatstart0(line, "TEXTURE").rest)))
    ELSE IF bstr_eatstart0(line, "FORMAT ").ok
      THEN DName("FORMAT", NameOf(bstr_strip(bstr_eatstart0(line, "FORMAT ").rest)))
    ELSE DName("?", "")

\* The end of parse_hook and parse_tex: the text up to the next //! is the
\* body, and the text from that //! on is left for the caller.
SplitBody_cut(body) ==
    LET sp == bstr_split_tok(body, "//!")
    IN  [body |-> sp.left, rest |-> sp.right]

SplitBody(body) ==
    LET sp == bstr_split_tok(body, "//!")
    IN  [body |-> sp.left,
         rest |-> IF sp.found THEN bstr0("//!") \o sp.right ELSE sp.right]

\* parse_hook on a text: the record, the header text consumed, and the text
\* left in *body.
parse_hook_text(text) ==
    LET Parsed(h, sp, sec) ==
            { [ok |-> r.ok, hook |-> r.hook, rest |-> sp.rest,
               headers |-> SubSeq(text, 1, Len(text) - Len(h.body)), nlines |-> Len(h.lines)] :
              r \in { parse_hook(sec) } }
        Sec(h, sp) ==
            UNION { Parsed(h, sp, sec) :
                    sec \in { Section([i \in 1..Len(h.lines) |-> HookDirective(h.lines[i])],
                                      sp.body) } }
        Split(h) == UNION { Sec(h, sp) : sp \in { SplitBody(h.body) } }
    IN  CHOOSE out \in UNION { Split(h) : h \in { HeaderLoop(text, << >>) } } : TRUE

\* parse_tex on a text, up to the call of pl_tex_create.
parse_tex_text(text) ==
    LET Parsed(h, sp, sec) ==
            { [ok |-> r.ok, name |-> r.name, params |-> r.params, rest |-> sp.rest,
               headers |-> SubSeq(text, 1, Len(text) - Len(h.body)), nlines |-> Len(h.lines)] :
              r \in { parse_tex(sec) } }
        Sec(h, sp) ==
            UNION { Parsed(h, sp, sec) :
                    sec \in { Section([i \in 1..Len(h.lines) |-> TexDirective(h.lines[i])],
                                      bstr_strip(sp.body)) } }
        Split(h) == UNION { Sec(h, sp) : sp \in { SplitBody(h.body) } }
    IN  CHOOSE out \in UNION { Split(h) : h \in { HeaderLoop(text, << >>) } } : TRUE

\* The texts: up to MaxChunks pieces, each one of
\*   HOOK RGB,
\*   BIND HOOKED,
\*   an indented SAVE T1,
\*   an unknown directive,
\*   a body line,
\*   a body line with the prefix inside,
\*   TEXTURE L1,
\*   FORMAT r8,
\*   a line of hex,
\*   DESC p without a newline.
MaxChunks == 3

Chunks ==
    { << "/", "/", "!", "H", "O", "O", "K", " ", "R", "G", "B", "\n" >>,
      << "/", "/", "!", "B", "I", "N", "D", " ", "H", "O", "O", "K", "E", "D", "\n" >>,
      << " ", "/", "/", "!", "S", "A", "V", "E", " ", "T", "1", "\n" >>,
      << "/", "/", "!", "F", "O", "O", "\n" >>,
      << "v", "\n" >>,
      << "v", " ", "/", "/", "!", "w", "\n" >>,
      << "/", "/", "!", "T", "E", "X", "T", "U", "R", "E", " ", "L", "1", "\n" >>,
      << "/", "/", "!", "F", "O", "R", "M", "A", "T", " ", "r", "8", "\n" >>,
      << "f", "f", "\n" >>,
      << "/", "/", "!", "D", "E", "S", "C", " ", "p" >> }

RECURSIVE Concat(_, _)
Concat(parts, i) == IF i > Len(parts) THEN << >> ELSE parts[i] \o Concat(parts, i + 1)

\* A TEXTURE section between two hook sections.
LongText ==
    Concat(<< bstr0("//!"), bstr0("HOOK"), << " " >>, bstr0("RGB"), << "\n", "v", "\n" >>,
              bstr0("//!TEXTURE"), << " " >>, bstr0("L1"), << "\n" >>,
              bstr0("//!"), bstr0("FORMAT "), bstr0("r8"), << "\n", "f", "f", "\n" >>,
              bstr0("//!"), bstr0("BIND"), << " " >>, bstr0("L1"), << "\n", "v" >> >>, 1)

Texts ==
    { Concat(parts, 1) : parts \in UNION { [1..n -> Chunks] : n \in 0..MaxChunks } }
      \cup { LongText }

NoTurn ==
    [op |-> "none", before |-> << >>, headers |-> << >>, nlines |-> 0, body |-> << >>]

InitText ==
    /\ phase = "text"
    /\ doc \in Texts
    /\ priv = PrivInit
    /\ stages = {}
    /\ gpu = GpuInit
    /\ last = NoTurn

\* The parse gives up: pl_parse_mpv_user_shader returns NULL.
TextError ==
    /\ phase' = "null"
    /\ doc' = << >>
    /\ priv' = PrivInit
    /\ stages' = {}

\* parse_user_shader before its loop: the text before the first //! is
\* skipped; an empty text or one without //! is refused.
TextStart ==
    /\ phase = "text"
    /\ IF Len(doc) = 0 \/ bstr_find(doc, bstr0("//!")) < 0
         THEN TextError /\ last' = [NoTurn EXCEPT !.op = "parse_error", !.before = doc]
         ELSE /\ phase' = "sections"
              /\ doc' = bstr_cut(doc, bstr_find(doc, bstr0("//!")))
              /\ last' = [NoTurn EXCEPT !.op = "skip", !.before = doc]
              /\ UNCHANGED << priv, stages >>
    /\ UNCHANGED gpu

\* One turn of the loop of parse_user_shader on a text.
TextSection ==
    /\ phase = "sections" /\ Len(doc) > 0
    /\ IF bstr_startswith0(doc, "//!TEXTURE")
         THEN \E r \in { parse_tex_text(doc) }, create_ok \in BOOLEAN :
                 /\ last' = [op |-> "parse_tex", before |-> doc, headers |-> r.headers,
                             nlines |-> r.nlines, body |-> << >>]
                 /\ IF r.ok /\ create_ok
                      THEN /\ gpu' = [gpu EXCEPT !.created = @ + 1,
                                                  !.live = @ \cup {LutTex(gpu.created + 1)},
                                                  !.made = Append(@, r.params)]
                           /\ priv' = register_tex(priv, [name |-> r.name,
                                                          tex |-> LutTex(gpu.created + 1)])
                           /\ doc' = r.rest
                           /\ UNCHANGED << phase, stages >>
                      ELSE TextError /\ UNCHANGED gpu
         ELSE \E r \in { parse_hook_text(doc) } :
                 /\ last' = [op |-> "parse_hook", before |-> doc, headers |-> r.headers,
                             nlines |-> r.nlines, body |-> r.hook.pass_body]
                 /\ IF r.ok
                      THEN /\ priv' = [priv EXCEPT
                                         !.hook_passes = Append(@, register_hook(r.hook).pass),
                                         !.save_stages = @ \cup register_hook(r.hook).save_stages]
                           /\ doc' = r.rest
                           /\ UNCHANGED << phase, stages, gpu >>
                      ELSE TextError /\ UNCHANGED gpu

\* The text is used up: the hook object is returned.
TextFinish ==
    /\ phase = "sections" /\ Len(doc) = 0
    /\ phase' = "live"
    /\ stages' = priv.save_stages
                 \cup UNION { priv.hook_passes[i].exec_stages : i \in 1..Len(priv.hook_passes) }
    /\ last' = [NoTurn EXCEPT !.op = "parse_done"]
    /\ UNCHANGED << doc, priv, gpu >>

NextText == TextStart \/ TextSection \/ TextFinish

SpecText == InitText /\ [][NextText]_vars

\* The lines of a text, each with its newline.
RECURSIVE LinesOf(_)
LinesOf(text) ==
    IF Len(text) = 0 THEN << >>
    ELSE << bstr_getline(text).line >> \o LinesOf(bstr_getline(text).rest)

\* A line that starts with //! once the white space around it is dropped.
IsHeaderLine(line) == bstr_startswith0(bstr_strip(line), "//!")

\* The position after pre is the start of a line, white space aside.
AtLineStart(pre) ==
    \A i \in 1..Len(pre) : (\A j \in i..Len(pre) : pre[j] /= "\n") => IsSpace(pre[i])

\* C24: after parse_hook succeeds, the header lines consumed, pass_body and
\* the text left over are the section text cut in three; the lines consumed
\* are the header lines the text starts with, pass_body goes from the first
\* line that is no header to the next line that begins with //! (to the end
\* if there is none), and the text left over starts at that line.
C24_BodyPartition ==
    phase = "sections" /\ last.op = "parse_hook" =>
        /\ last.before = last.headers \o last.body \o doc
        /\ last.nlines = Len(LinesOf(last.headers))
        /\ \A i \in 1..Len(LinesOf(last.headers)) : IsHeaderLine(LinesOf(last.headers)[i])
        /\ Len(last.body \o doc) > 0 => ~IsHeaderLine(LinesOf(last.body \o doc)[1])
        /\ bstr_find(last.body, bstr0("//!")) < 0
        /\ Len(doc) > 0 =>
             /\ bstr_startswith0(doc, "//!")
             /\ AtLineStart(last.headers \o last.body)

\* ------------------------------------------- the programs of a hook record
\* The lines of a section with the size-expression directive kw.
LinesWith(hdr, kw) == { k \in 1..Len(hdr) : hdr[k].kw = kw }

\* The words of the last line with the directive kw.
LastWords(hdr, kw) ==
    hdr[CHOOSE k \in LinesWith(hdr, kw) : \A j \in LinesWith(hdr, kw) : k >= j].words

\* prog is the tokens of words, in order, followed by END.
IsProgramOf(prog, words) ==
    /\ \A i \in 1..Len(words) : Slot(prog, i) = WordToken(words[i])
    /\ Len(words) < MAX_SZEXP_SIZE
    /\ Slot(prog, Len(words) + 1) = SZEXP_END

\* C25: after parse_hook succeeds, width, height and cond each hold the
\* tokens of the last line of their directive followed by END, with nothing
\* left of the default or of an earlier line, and hold the default program
\* when the section has no such line.
C25_LastDirectiveWins ==
    [][ phase = "parsing" /\ doc /= << >> /\ phase' = "parsing" =>
          \E hdr \in { Head(doc).hdr }, h \in { priv'.hook_passes[Len(priv'.hook_passes)].hook } :
             /\ IF LinesWith(hdr, "WIDTH") = {} THEN h.width = HookDefault.width
                ELSE IsProgramOf(h.width, LastWords(hdr, "WIDTH"))
             /\ IF LinesWith(hdr, "HEIGHT") = {} THEN h.height = HookDefault.height
                ELSE IsProgramOf(h.height, LastWords(hdr, "HEIGHT"))
             /\ IF LinesWith(hdr, "WHEN") = {} THEN h.cond = HookDefault.cond
                ELSE IsProgramOf(h.cond, LastWords(hdr, "WHEN")) ]_vars

\* ------------------------------------------------- the evaluation stack
\* C26: no push of pl_eval_szexpr finds the stack full: for every program
\* of up to 32 tokens, with or without END, the depth before the push of a
\* constant, a variable or a dyadic result is at most the index of the
\* token executed, hence below 32.
C26_StackNeverFull ==
    phase = "value" =>
        /\ last.why /= "overflow"
        /\ Len(doc) <= MAX_SZEXP_SIZE
        /\ ~Underflows(doc) =>
             \A k \in 1..ProgLen(doc) :
                doc[k].tag \in { "CONST", "VAR_W", "VAR_H", "OP2" } =>
                   /\ DepthAt(doc, k - 1) <= k - 1
                   /\ DepthAt(doc, k - 1) < 32

C26_Witness ==
    /\ phase = "value"
    /\ doc = PushProg(MAX_SZEXP_SIZE)
    /\ DepthAt(doc, 31) = 31
    /\ ~last.ok /\ last.why = "malformed"

\* ------------------------------------------------------- the bind loop
\* The subscripts the bind loop of hook_hook reads from slot i on: a name
\* other than HOOKED reads p->lut_textures[i] in the first turn of the loop
\* over num_lut_textures, and when that slot does not match
\* p->pass_textures[i] in the first turn of the loop over num_pass_textures.
RECURSIVE BindReadsFrom(_, _, _, _, _)
BindReadsFrom(p, hook, params, env, i) ==
    IF i >= SHADER_MAX_BINDS \/ i >= Len(hook.bind_tex) THEN {}
    ELSE LET texname == hook.bind_tex[i + 1]
             lut == LutSlot(p.lut_textures, i, texname, env)
             ptex == PassSlot(p.pass_textures, i, texname, env)
             lutRead == IF Len(p.lut_textures) > 0 THEN {[arr |-> "lut_textures", idx |-> i]} ELSE {}
             passRead == IF p.num_pass_textures > 0 THEN {[arr |-> "pass_textures", idx |-> i]} ELSE {}
         IN
      IF bstr_equals0(texname, "HOOKED") THEN
          IF params.tex \in env.bad THEN {}
          ELSE BindReadsFrom(p, hook, params, env, i + 1)
      ELSE IF Len(p.lut_textures) > 0 /\ SlotMatches(texname, lut) THEN
          lutRead \cup BindReadsFrom(p, hook, params, env, i + 1)
      ELSE IF p.num_pass_textures > 0 /\ SlotMatches(texname, ptex) THEN
          lutRead \cup passRead
             \cup (IF ptex.tex \in env.bad THEN {}
                   ELSE BindReadsFrom(p, hook, params, env, i + 1))
      ELSE lutRead \cup passRead \cup BindReadsFrom(p, hook, params, env, i + 1)

MaxBindNames == 2
MaxLuts == 2

\* The names a pass binds, and a pass with all SHADER_MAX_BINDS slots used.
BindNames == { "HOOKED", "L1", "T1" }
FullBinds == [i \in 1..SHADER_MAX_BINDS |-> IF i = 1 THEN "HOOKED" ELSE "T1"]
BindLists == UNION { [1..n -> BindNames] : n \in 0..MaxBindNames } \cup {FullBinds}

\* The LUT textures registered and the pass-textures stored.
LutLists == { [i \in 1..n |-> [name |-> IF i = 1 THEN "L1" ELSE "L2", tex |-> LutTex(i)]] :
                n \in 0..MaxLuts }
BindStored == [name : { "T1", "L1" }, tex : { FrameTex(3) }]

\* What the uninitialised slots of one array may compare equal to.
OobSets(slots) == { {}, slots } \cup { {i} : i \in slots }

InitBind ==
    /\ phase = "binding"
    /\ \E names \in BindLists : doc = [HookDefault EXCEPT !.bind_tex = names]
    /\ \E luts \in LutLists, n \in 0..MaxStored :
         \E arr \in [1..n -> BindStored], num \in 0..n :
            priv = [PrivInit EXCEPT !.lut_textures = luts, !.pass_textures = arr,
                                    !.num_pass_textures = num]
    /\ stages = {}
    /\ gpu = GpuInit
    /\ last = NoCall

\* The bind loop runs over the names of the pass.
BindLoop ==
    /\ phase = "binding"
    /\ phase' = "bound"
    /\ \E ol \in OobSets({ i \in 0..(Len(doc.bind_tex) - 1) : i >= Len(priv.lut_textures) }),
          op \in OobSets({ i \in 0..(Len(doc.bind_tex) - 1) : i >= Len(priv.pass_textures) }) :
         \E env \in { [EnvOk EXCEPT !.oob_lut = ol, !.oob_pass = op] } :
            \E b \in { BindFrom(priv, doc, LookupParams, env, 0, << >>) } :
               last' = [ok |-> b.ok, binds |-> b.binds, env |-> env,
                        reads |-> BindReadsFrom(priv, doc, LookupParams, env, 0)]
    /\ UNCHANGED << doc, priv, stages, gpu >>

NextBind == BindLoop

SpecBind == InitBind /\ [][NextBind]_vars

\* C27: every subscript the bind loop uses on lut_textures is below
\* num_lut_textures and every subscript it uses on pass_textures is below
\* num_pass_textures, whatever the number of names bound, of LUT textures
\* registered and of pass-textures stored.
C27_BindSubscriptsInBounds ==
    phase = "bound" =>
        \A r \in last.reads :
           IF r.arr = "lut_textures" THEN r.idx < Len(priv.lut_textures)
           ELSE r.idx < priv.num_pass_textures

\* ------------------------------------------------ the driver terminates
\* The driver is one sequential loop: a turn that can run does run.
SpecTextFair == InitText /\ [][NextText]_vars /\ WF_vars(NextText)

\* C28: parse_user_shader terminates on every text: at the start of each
\* turn of its loop the text left is not empty and begins with //!, each
\* turn either fails or leaves a strictly shorter text, having consumed at
\* least one header line from its front, and the parse ends with the object
\* returned or refused.
C28_ParseTerminates ==
    /\ [](phase = "sections" /\ Len(doc) > 0 => bstr_startswith0(doc, "//!"))
    /\ [][ phase = "sections" /\ Len(doc) > 0 =>
             \/ phase' = "null"
             \/ /\ phase' = "sections"
                /\ Len(doc') < Len(doc)
                /\ last'.nlines >= 1
                /\ Len(last'.headers) > 0
                /\ Len(doc') <= Len(doc) - Len(last'.headers)
                /\ SubSeq(doc, 1, Len(last'.headers)) = last'.headers
                /\ IsHeaderLine(LinesOf(last'.headers)[1]) ]_vars
    /\ <>(phase \in { "live", "null" })

C28_Witness ==
    /\ phase = "sections"
    /\ Len(priv.hook_passes) + Len(priv.lut_textures) = 2
    /\ Len(doc) > 0 /\ bstr_startswith0(doc, "//!")
    /\ Len(doc) < Len(last.before)
    /\ last.nlines >= 1
====
